---- MODULE Spec2Model ----
(***************************************************************************)
(* The approval decision engine of approval-request-metric-collector:      *)
(* the hub-side approval-request reconciler (package approvalrequest) and  *)
(* the member-side metric collector reconciler (package metriccollector),  *)
(* coupled through MetricCollectorReport objects on the hub.               *)
(*                                                                         *)
(* Every reconcile pass is one action.  The API calls a pass makes can     *)
(* fail; the failing call is an input of the action (fault).               *)
(***************************************************************************)
EXTENDS Integers, Sequences, FiniteSets, TLC

VARIABLES
    ar,              \* approval-request objects on the hub, by <<namespace, name>>
    updateRuns,      \* staged-update-run objects, by <<namespace, name>> -> stagesStatus
    trackers,        \* workload trackers, by <<namespace, name>> -> workloads
    reports,         \* MetricCollectorReport objects, by <<namespace, name>>
    queue,           \* work queue of the approval-request controller
    collectorQueue,  \* work queues of the metric collectors (one namespace each)
    last             \* what the most recent step did (observation only)

vars == <<ar, updateRuns, trackers, reports, queue, collectorQueue, last>>

-----------------------------------------------------------------------------
(* Bounds of the model *)

MaxHealthyReplicas == 2
MaxPods == 2

-----------------------------------------------------------------------------
(* Program constants *)

metricCollectorFinalizer == "kubernetes-fleet.io/metric-collector-report-cleanup"
prometheusURL == "http://prometheus.prometheus.svc.cluster.local:9090"
ApprovalRequestConditionApproved == "Approved"
MetricCollectorReportConditionTypeMetricsCollected == "MetricsCollected"
MetricCollectorReportConditionReasonCollectionFailed == "CollectionFailed"
MetricCollectorReportConditionReasonCollectionSucceeded == "CollectionSucceeded"

\* ctrl.Result values
Idle == "Idle"
RetryAfter15 == "RetryAfter(15s)"
RetryAfter30 == "RetryAfter(30s)"
Failed == "Failed"

-----------------------------------------------------------------------------
(* The objects of the modelled fleet *)

MemberClusters == {"c1", "c2"}

\* The cluster-scoped approval request a1 that the orchestrator issues before
\* stage s1 of update run run-A.
BeforeStageRequest == <<"", "a1">>
ApprovalRequests == {BeforeStageRequest}

NewApprovalRequest(name) ==
    [ name |-> name,
      namespace |-> "",
      spec |-> [targetUpdateRun |-> "run-A", targetStage |-> "s1"],
      deletionTimestamp |-> FALSE,
      finalizers |-> {},
      conditions |-> <<>> ]

Cluster(c) == [clusterName |-> c]

\* stagesStatus of the update run: the usual run, a run whose stage has no
\* cluster, and a run without the target stage.
RunChoices ==
    { << [stageName |-> "s0", clusters |-> <<Cluster("c2")>>],
         [stageName |-> "s1", clusters |-> <<Cluster("c1"), Cluster("c2")>>] >>,
      << [stageName |-> "s1", clusters |-> <<>>] >>,
      << [stageName |-> "s0", clusters |-> <<Cluster("c1")>>] >> }

WorkloadReference(name, namespace, kind, healthyReplicas) ==
    [ name |-> name, namespace |-> namespace, kind |-> kind,
      healthyReplicas |-> healthyReplicas ]

TrackerChoices ==
    {<<>>} \cup
    { <<WorkloadReference("app", "ns", k, h)>> :
        k \in {"Deployment"}, h \in 1..MaxHealthyReplicas }

-----------------------------------------------------------------------------
(* Helpers of the libraries the code calls *)

\* a variant of NamespaceName whose format drops the cluster name, so that
\* every cluster maps to one namespace
NamespaceNameShared(clusterName) == "fleet-member-"

\* fmt.Sprintf(utils.NamespaceNameFormat, clusterName)
NamespaceName(clusterName) == "fleet-member-" \o clusterName

\* fmt.Sprintf("mc-%s-%s", updateRunName, stageName)
ReportName(updateRunName, stageName) ==
    "mc-" \o updateRunName \o "-" \o stageName

\* the nil *metav1.Condition
NilCondition == [type |-> "", status |-> "", reason |-> ""]

\* meta.FindStatusCondition: the first condition of the type, or nil
RECURSIVE FindStatusCondition(_, _)
FindStatusCondition(conditions, type) ==
    IF conditions = <<>> THEN NilCondition
    ELSE IF Head(conditions).type = type THEN Head(conditions)
    ELSE FindStatusCondition(Tail(conditions), type)

\* a variant of SetStatusCondition that adds the condition without looking
\* for one of its type
SetStatusConditionAppending(conditions, cond) == Append(conditions, cond)

\* meta.SetStatusCondition: replace the condition of the type, or append it
SetStatusCondition(conditions, cond) ==
    IF \E i \in 1..Len(conditions) : conditions[i].type = cond.type
    THEN [ i \in 1..Len(conditions) |->
             IF conditions[i].type = cond.type THEN cond ELSE conditions[i] ]
    ELSE Append(conditions, cond)

\* controllerutil.ContainsFinalizer
ContainsFinalizer(obj, f) == f \in obj.finalizers

\* a Go map read: the zero value when the key is absent
MapGet(m, k) == IF k \in DOMAIN m THEN m[k] ELSE ""

Remove(f, k) == [x \in DOMAIN f \ {k} |-> f[x]]

-----------------------------------------------------------------------------
(* Faults: the API call of a pass that fails, if any *)

NoFault == [call |-> "none", at |-> 0]

Faults ==
    {NoFault}
    \cup { [call |-> c, at |-> 0] :
             c \in {"UpdateFinalizer", "GetUpdateRun", "GetTracker", "UpdateStatus"} }
    \cup { [call |-> c, at |-> i] :
             c \in {"CreateOrUpdate", "GetReport", "DeleteReport"},
             i \in 1..Cardinality(MemberClusters) }

Fails(fault, call, i) == fault.call = call /\ fault.at = i

-----------------------------------------------------------------------------
(* Package approvalrequest: the approval-request reconciler *)

\* a variant of GetNamespace that takes every request for cluster-scoped
GetNamespaceClusterScoped(obj) == ""

GetNamespace(obj) == obj.namespace

\* a variant of IsApproved without the terminal check: no object is ever
\* taken for approved
IsApprovedNever(obj) == FALSE

\* the Approved condition is present with status True
IsApproved(obj) ==
    LET approvedCond ==
          FindStatusCondition(obj.conditions, ApprovalRequestConditionApproved)
    IN  approvedCond # NilCondition /\ approvedCond.status = "True"

\* a variant of FindStage that falls back to the first stage status when none
\* has the name
FindStageOrFirst(stagesStatus, stageName) ==
    IF \E i \in 1..Len(stagesStatus) : stagesStatus[i].stageName = stageName
    THEN CHOOSE i \in 1..Len(stagesStatus) :
           /\ stagesStatus[i].stageName = stageName
           /\ \A j \in 1..(i - 1) : stagesStatus[j].stageName # stageName
    ELSE IF Len(stagesStatus) > 0 THEN 1 ELSE 0

\* the loop that finds the stage: index of the first stage status of that
\* name, 0 when there is none (stageStatus == nil)
FindStage(stagesStatus, stageName) ==
    IF \E i \in 1..Len(stagesStatus) : stagesStatus[i].stageName = stageName
    THEN CHOOSE i \in 1..Len(stagesStatus) :
           /\ stagesStatus[i].stageName = stageName
           /\ \A j \in 1..(i - 1) : stagesStatus[j].stageName # stageName
    ELSE 0

ClusterNamesOf(stageStatus) ==
    [i \in 1..Len(stageStatus.clusters) |-> stageStatus.clusters[i].clusterName]

ReportKey(clusterName, reportName) == <<NamespaceName(clusterName), reportName>>

ReportLabels(approvalReq, updateRunName, stageName, clusterName) ==
    [ approvalRequest |-> approvalReq.name,
      updateRun |-> updateRunName,
      stage |-> stageName,
      cluster |-> clusterName ]

EmptyReportStatus ==
    [ conditions |-> <<>>,
      workloadsMonitored |-> 0,
      lastCollectionTime |-> "nil",
      collectedMetrics |-> <<>> ]

\* a variant of CreateOrUpdate that writes a new object whether or not one
\* exists
CreateAlways(rep, key, labels) ==
    [ reports |-> (key :> [ labels |-> labels,
                            spec |-> [prometheusURL |-> prometheusURL],
                            status |-> EmptyReportStatus ]) @@ rep,
      op |-> "CreateReport" ]

\* a variant of CreateOrUpdate whose update writes the whole desired object,
\* the status included
CreateOrUpdateWholeObject(rep, key, labels) ==
    [ reports |-> (key :> [ labels |-> labels,
                            spec |-> [prometheusURL |-> prometheusURL],
                            status |-> EmptyReportStatus ]) @@ rep,
      op |-> IF key \in DOMAIN rep THEN "UpdateReport" ELSE "CreateReport" ]

\* controllerutil.CreateOrUpdate with the mutate function of
\* ensureMetricCollectorReports: create the report when it is absent, update
\* it when the mutation changes it, and leave it alone otherwise.
CreateOrUpdate(rep, key, labels) ==
    IF key \notin DOMAIN rep
    THEN [ reports |-> (key :> [ labels |-> labels,
                                 spec |-> [prometheusURL |-> prometheusURL],
                                 status |-> EmptyReportStatus ]) @@ rep,
           op |-> "CreateReport" ]
    ELSE LET mutated == [rep[key] EXCEPT !.labels = labels,
                                         !.spec.prometheusURL = prometheusURL]
         IN  IF mutated = rep[key]
             THEN [reports |-> rep, op |-> "unchanged"]
             ELSE [ reports |-> [rep EXCEPT ![key] = mutated],
                    op |-> "UpdateReport" ]

\* a variant of EnsureLoop that goes on to the next cluster after a failed
\* write and reports the failure at the end of the list
RECURSIVE EnsureLoopKeepsGoing(_, _, _, _, _, _, _)
EnsureLoopKeepsGoing(rep, approvalReq, clusterNames, updateRunName, stageName, i, fault) ==
    IF i > Len(clusterNames)
    THEN [ reports |-> rep,
           err |-> \E j \in 1..Len(clusterNames) : Fails(fault, "CreateOrUpdate", j),
           writes |-> {} ]
    ELSE IF Fails(fault, "CreateOrUpdate", i)
    THEN EnsureLoopKeepsGoing(rep, approvalReq, clusterNames, updateRunName,
                              stageName, i + 1, fault)
    ELSE LET r == CreateOrUpdate(
                    rep,
                    ReportKey(clusterNames[i], ReportName(updateRunName, stageName)),
                    ReportLabels(approvalReq, updateRunName, stageName, clusterNames[i]))
             rest == EnsureLoopKeepsGoing(r.reports, approvalReq, clusterNames,
                                          updateRunName, stageName, i + 1, fault)
         IN  [rest EXCEPT !.writes = @ \cup (IF r.op = "unchanged" THEN {} ELSE {r.op})]

\* the loop of ensureMetricCollectorReports from cluster i on
RECURSIVE EnsureLoop(_, _, _, _, _, _, _)
EnsureLoop(rep, approvalReq, clusterNames, updateRunName, stageName, i, fault) ==
    IF i > Len(clusterNames)
    THEN [reports |-> rep, err |-> FALSE, writes |-> {}]
    ELSE IF Fails(fault, "CreateOrUpdate", i)
    THEN [reports |-> rep, err |-> TRUE, writes |-> {}]
    ELSE LET r == CreateOrUpdate(
                    rep,
                    ReportKey(clusterNames[i], ReportName(updateRunName, stageName)),
                    ReportLabels(approvalReq, updateRunName, stageName, clusterNames[i]))
             rest == EnsureLoop(r.reports, approvalReq, clusterNames,
                                updateRunName, stageName, i + 1, fault)
         IN  [rest EXCEPT !.writes = @ \cup (IF r.op = "unchanged" THEN {} ELSE {r.op})]

\* a variant of ensureMetricCollectorReports that returns after the first
\* cluster of the list
ensureFirstClusterOnly(rep, approvalReq, clusterNames, updateRunName, stageName, fault) ==
    EnsureLoop(rep, approvalReq, SubSeq(clusterNames, 1, 1), updateRunName,
               stageName, 1, fault)

ensureMetricCollectorReports(rep, approvalReq, clusterNames, updateRunName, stageName, fault) ==
    EnsureLoop(rep, approvalReq, clusterNames, updateRunName, stageName, 1, fault)

\* the inner loop of checkWorkloadHealthAndApprove: the index of the first
\* collected metric of the tracked workload's namespace and name, 0 if none
FirstMatchingMetric(collectedMetrics, trackedWorkload) ==
    LET matches == { i \in 1..Len(collectedMetrics) :
                       /\ collectedMetrics[i].namespace = trackedWorkload.namespace
                       /\ collectedMetrics[i].workloadName = trackedWorkload.name }
    IN  IF matches = {} THEN 0
        ELSE CHOOSE i \in matches : \A j \in matches : i <= j

\* found && healthy of one tracked workload
TrackedWorkloadHealthy(collectedMetrics, trackedWorkload) ==
    LET i == FirstMatchingMetric(collectedMetrics, trackedWorkload)
    IN  i # 0 /\ collectedMetrics[i].health

\* one cluster of the loop: its report exists and every tracked workload is
\* found and healthy in it
ClusterHealthy(rep, key, workloads) ==
    /\ key \in DOMAIN rep
    /\ \A j \in 1..Len(workloads) :
         TrackedWorkloadHealthy(rep[key].status.collectedMetrics, workloads[j])

ApprovedCondition ==
    [ type |-> ApprovalRequestConditionApproved,
      status |-> "True",
      reason |-> "AllWorkloadsHealthy" ]

\* a variant of ConditionsAfterCheck that records an unhealthy evaluation as
\* Approved=False
ConditionsAfterCheckDisapproving(conditions, allHealthy) ==
    IF allHealthy THEN SetStatusCondition(conditions, ApprovedCondition)
    ELSE SetStatusCondition(conditions,
             [ type |-> ApprovalRequestConditionApproved,
               status |-> "False",
               reason |-> "WorkloadsUnhealthy" ])

\* the conditions checkWorkloadHealthAndApprove leaves on the object
ConditionsAfterCheck(conditions, allHealthy) ==
    IF allHealthy THEN SetStatusCondition(conditions, ApprovedCondition)
    ELSE conditions

\* a variant of checkWorkloadHealthAndApprove without the return on a tracker
\* that lists no workloads
checkWithoutWorkloads(rep, obj, clusterNames, updateRunName, stageName, fault) ==
    LET trackerKey == <<GetNamespace(obj), updateRunName>>
        metricCollectorName == ReportName(updateRunName, stageName)
        skip(v) == [err |-> FALSE, conditions |-> obj.conditions,
                    writes |-> {}, verdict |-> v]
        fail(v) == [err |-> TRUE, conditions |-> obj.conditions,
                    writes |-> {}, verdict |-> v]
    IN  IF Fails(fault, "GetTracker", 0) THEN fail("error")
        ELSE IF trackerKey \notin DOMAIN trackers THEN skip("tracker not found")
        ELSE IF \E i \in 1..Len(clusterNames) : Fails(fault, "GetReport", i)
        THEN fail("error")
        ELSE LET allHealthy ==
                   \A i \in 1..Len(clusterNames) :
                      ClusterHealthy(rep, ReportKey(clusterNames[i], metricCollectorName),
                                     trackers[trackerKey])
             IN  IF allHealthy /\ Fails(fault, "UpdateStatus", 0) THEN fail("healthy")
                 ELSE [ err |-> FALSE,
                        conditions |-> ConditionsAfterCheck(obj.conditions, allHealthy),
                        writes |-> IF allHealthy THEN {"UpdateStatus"} ELSE {},
                        verdict |-> IF allHealthy THEN "healthy" ELSE "unhealthy" ]

\* checkWorkloadHealthAndApprove: the verdict, the conditions to persist and
\* whether the pass fails
checkWorkloadHealthAndApprove(rep, obj, clusterNames, updateRunName, stageName, fault) ==
    LET trackerKey == <<GetNamespace(obj), updateRunName>>
        metricCollectorName == ReportName(updateRunName, stageName)
        skip(v) == [err |-> FALSE, conditions |-> obj.conditions,
                    writes |-> {}, verdict |-> v]
        fail(v) == [err |-> TRUE, conditions |-> obj.conditions,
                    writes |-> {}, verdict |-> v]
    IN  IF Fails(fault, "GetTracker", 0) THEN fail("error")
        ELSE IF trackerKey \notin DOMAIN trackers THEN skip("tracker not found")
        ELSE IF Len(trackers[trackerKey]) = 0 THEN skip("tracker has no workloads")
        ELSE IF \E i \in 1..Len(clusterNames) : Fails(fault, "GetReport", i)
        THEN fail("error")
        ELSE LET allHealthy ==
                   \A i \in 1..Len(clusterNames) :
                      ClusterHealthy(rep, ReportKey(clusterNames[i], metricCollectorName),
                                     trackers[trackerKey])
             IN  IF allHealthy /\ Fails(fault, "UpdateStatus", 0) THEN fail("healthy")
                 ELSE [ err |-> FALSE,
                        conditions |-> ConditionsAfterCheck(obj.conditions, allHealthy),
                        writes |-> IF allHealthy THEN {"UpdateStatus"} ELSE {},
                        verdict |-> IF allHealthy THEN "healthy" ELSE "unhealthy" ]

\* the cluster names handleDelete works with: empty when the update run cannot
\* be read or has no such stage
CleanupClusterNames(obj, fault) ==
    LET runKey == <<GetNamespace(obj), obj.spec.targetUpdateRun>>
    IN  IF Fails(fault, "GetUpdateRun", 0) \/ runKey \notin DOMAIN updateRuns
        THEN <<>>
        ELSE LET s == FindStage(updateRuns[runKey], obj.spec.targetStage)
             IN  IF s = 0 THEN <<>> ELSE ClusterNamesOf(updateRuns[runKey][s])

\* the delete loop of handleDelete from cluster i on
RECURSIVE DeleteLoop(_, _, _, _, _)
DeleteLoop(rep, clusterNames, reportName, i, fault) ==
    IF i > Len(clusterNames)
    THEN [reports |-> rep, err |-> FALSE, writes |-> {}]
    ELSE LET key == ReportKey(clusterNames[i], reportName)
         IN  IF key \notin DOMAIN rep \/ Fails(fault, "GetReport", i)
             THEN DeleteLoop(rep, clusterNames, reportName, i + 1, fault)
             ELSE IF Fails(fault, "DeleteReport", i)
             THEN [reports |-> rep, err |-> TRUE, writes |-> {}]
             ELSE LET rest == DeleteLoop(Remove(rep, key), clusterNames,
                                         reportName, i + 1, fault)
                  IN  [rest EXCEPT !.writes = @ \cup {"DeleteReport"}]

Pass(obj, rep, result, writes, verdict) ==
    [obj |-> obj, reports |-> rep, result |-> result, writes |-> writes,
     verdict |-> verdict]

\* a variant of handleDelete that fails, as the provisioning path does, when
\* the update run cannot be read or has no stage of the target name
handleDeleteNeedsStage(obj, fault) ==
    LET runKey == <<GetNamespace(obj), obj.spec.targetUpdateRun>>
    IN  IF ~ContainsFinalizer(obj, metricCollectorFinalizer)
        THEN Pass(obj, reports, Idle, {}, "cleanup")
        ELSE IF \/ Fails(fault, "GetUpdateRun", 0)
                \/ runKey \notin DOMAIN updateRuns
                \/ FindStage(updateRuns[runKey], obj.spec.targetStage) = 0
        THEN Pass(obj, reports, Failed, {}, "cleanup")
        ELSE LET d == DeleteLoop(reports, CleanupClusterNames(obj, fault),
                                 ReportName(obj.spec.targetUpdateRun,
                                            obj.spec.targetStage),
                                 1, fault)
             IN  IF d.err \/ Fails(fault, "UpdateFinalizer", 0)
                 THEN Pass(obj, d.reports, Failed, d.writes, "cleanup")
                 ELSE Pass([obj EXCEPT !.finalizers = @ \ {metricCollectorFinalizer}],
                           d.reports, Idle, d.writes \cup {"RemoveFinalizer"},
                           "cleanup")

\* handleDelete
handleDelete(obj, fault) ==
    IF ~ContainsFinalizer(obj, metricCollectorFinalizer)
    THEN Pass(obj, reports, Idle, {}, "cleanup")
    ELSE LET clusterNames == CleanupClusterNames(obj, fault)
             reportName == ReportName(obj.spec.targetUpdateRun, obj.spec.targetStage)
             d == DeleteLoop(reports, clusterNames, reportName, 1, fault)
         IN  IF d.err THEN Pass(obj, d.reports, Failed, d.writes, "cleanup")
             ELSE IF Fails(fault, "UpdateFinalizer", 0)
             THEN Pass(obj, d.reports, Failed, d.writes, "cleanup")
             ELSE Pass([obj EXCEPT !.finalizers = @ \ {metricCollectorFinalizer}],
                       d.reports, Idle, d.writes \cup {"RemoveFinalizer"}, "cleanup")

\* a variant of ProvisionAndPoll that takes an update run that cannot be read,
\* or a missing stage, for a precondition to wait for
ProvisionAndPollAwaitsStage(obj, fault, writes) ==
    LET updateRunName == obj.spec.targetUpdateRun
        stageName == obj.spec.targetStage
        runKey == <<GetNamespace(obj), updateRunName>>
    IN  IF Fails(fault, "GetUpdateRun", 0) \/ runKey \notin DOMAIN updateRuns
        THEN Pass(obj, reports, RetryAfter15, writes, "no update run")
        ELSE LET s == FindStage(updateRuns[runKey], stageName)
        IN  IF s = 0 THEN Pass(obj, reports, RetryAfter15, writes, "no stage")
        ELSE LET clusterNames == ClusterNamesOf(updateRuns[runKey][s])
        IN  IF Len(clusterNames) = 0
            THEN Pass(obj, reports, Idle, writes, "no clusters")
        ELSE LET e == ensureMetricCollectorReports(reports, obj, clusterNames,
                                                   updateRunName, stageName, fault)
        IN  IF e.err
            THEN Pass(obj, e.reports, Failed, writes \cup e.writes, "ensure failed")
        ELSE LET c == checkWorkloadHealthAndApprove(e.reports, obj, clusterNames,
                                                    updateRunName, stageName, fault)
        IN  IF c.err
            THEN Pass(obj, e.reports, Failed, writes \cup e.writes, c.verdict)
            ELSE Pass([obj EXCEPT !.conditions = c.conditions], e.reports,
                      RetryAfter15, writes \cup e.writes \cup c.writes, c.verdict)

\* a variant of ProvisionAndPoll without the return on an empty cluster list
ProvisionAndPollAnyList(obj, fault, writes) ==
    LET updateRunName == obj.spec.targetUpdateRun
        stageName == obj.spec.targetStage
        runKey == <<GetNamespace(obj), updateRunName>>
    IN  IF Fails(fault, "GetUpdateRun", 0) \/ runKey \notin DOMAIN updateRuns
        THEN Pass(obj, reports, Failed, writes, "no update run")
        ELSE LET s == FindStage(updateRuns[runKey], stageName)
        IN  IF s = 0 THEN Pass(obj, reports, Failed, writes, "no stage")
        ELSE LET clusterNames == ClusterNamesOf(updateRuns[runKey][s])
                 e == ensureMetricCollectorReports(reports, obj, clusterNames,
                                                   updateRunName, stageName, fault)
        IN  IF e.err
            THEN Pass(obj, e.reports, Failed, writes \cup e.writes, "ensure failed")
        ELSE LET c == checkWorkloadHealthAndApprove(e.reports, obj, clusterNames,
                                                    updateRunName, stageName, fault)
        IN  IF c.err
            THEN Pass(obj, e.reports, Failed, writes \cup e.writes, c.verdict)
            ELSE Pass([obj EXCEPT !.conditions = c.conditions], e.reports,
                      RetryAfter15, writes \cup e.writes \cup c.writes, c.verdict)

\* reconcileApprovalRequestObj, after the deletion and approval checks and
\* after the finalizer is in place (obj carries it)
ProvisionAndPoll(obj, fault, writes) ==
    LET updateRunName == obj.spec.targetUpdateRun
        stageName == obj.spec.targetStage
        runKey == <<GetNamespace(obj), updateRunName>>
    IN  IF Fails(fault, "GetUpdateRun", 0) \/ runKey \notin DOMAIN updateRuns
        THEN Pass(obj, reports, Failed, writes, "no update run")
        ELSE LET s == FindStage(updateRuns[runKey], stageName)
        IN  IF s = 0 THEN Pass(obj, reports, Failed, writes, "no stage")
        ELSE LET clusterNames == ClusterNamesOf(updateRuns[runKey][s])
        IN  IF Len(clusterNames) = 0
            THEN Pass(obj, reports, Idle, writes, "no clusters")
        ELSE LET e == ensureMetricCollectorReports(reports, obj, clusterNames,
                                                   updateRunName, stageName, fault)
        IN  IF e.err
            THEN Pass(obj, e.reports, Failed, writes \cup e.writes, "ensure failed")
        ELSE LET c == checkWorkloadHealthAndApprove(e.reports, obj, clusterNames,
                                                    updateRunName, stageName, fault)
        IN  IF c.err
            THEN Pass(obj, e.reports, Failed, writes \cup e.writes, c.verdict)
            ELSE Pass([obj EXCEPT !.conditions = c.conditions], e.reports,
                      RetryAfter15, writes \cup e.writes \cup c.writes, c.verdict)

\* a variant of reconcileApprovalRequestObj without the return on an approved
\* request
reconcilePollsApproved(obj, fault) ==
    IF obj.deletionTimestamp THEN handleDelete(obj, fault)
    ELSE IF ~ContainsFinalizer(obj, metricCollectorFinalizer)
    THEN IF Fails(fault, "UpdateFinalizer", 0)
         THEN Pass(obj, reports, Failed, {}, "finalizer failed")
         ELSE ProvisionAndPoll(
                [obj EXCEPT !.finalizers = @ \cup {metricCollectorFinalizer}],
                fault, {"AddFinalizer"})
    ELSE ProvisionAndPoll(obj, fault, {})

\* a variant of reconcileApprovalRequestObj that tests the Approved condition
\* before the deletion timestamp
reconcileApprovedBeforeDeletion(obj, fault) ==
    IF IsApproved(obj) THEN Pass(obj, reports, Idle, {}, "approved")
    ELSE IF obj.deletionTimestamp THEN handleDelete(obj, fault)
    ELSE IF ~ContainsFinalizer(obj, metricCollectorFinalizer)
    THEN IF Fails(fault, "UpdateFinalizer", 0)
         THEN Pass(obj, reports, Failed, {}, "finalizer failed")
         ELSE ProvisionAndPoll(
                [obj EXCEPT !.finalizers = @ \cup {metricCollectorFinalizer}],
                fault, {"AddFinalizer"})
    ELSE ProvisionAndPoll(obj, fault, {})

\* a variant of reconcileApprovalRequestObj that goes on to the stage when
\* the update that persists the finalizer has failed
reconcileIgnoresFinalizerFailure(obj, fault) ==
    IF obj.deletionTimestamp THEN handleDelete(obj, fault)
    ELSE IF IsApproved(obj) THEN Pass(obj, reports, Idle, {}, "approved")
    ELSE IF ~ContainsFinalizer(obj, metricCollectorFinalizer)
    THEN IF Fails(fault, "UpdateFinalizer", 0)
         THEN ProvisionAndPoll(obj, NoFault, {})
         ELSE ProvisionAndPoll(
                [obj EXCEPT !.finalizers = @ \cup {metricCollectorFinalizer}],
                fault, {"AddFinalizer"})
    ELSE ProvisionAndPoll(obj, fault, {})

\* a variant of reconcileApprovalRequestObj that writes the Approved condition
\* again when it finds it set
reconcileReaffirmsApproval(obj, fault) ==
    IF obj.deletionTimestamp THEN handleDelete(obj, fault)
    ELSE IF IsApproved(obj)
    THEN Pass([obj EXCEPT !.conditions = SetStatusCondition(@, ApprovedCondition)],
              reports, Idle, {"UpdateStatus"}, "approved")
    ELSE IF ~ContainsFinalizer(obj, metricCollectorFinalizer)
    THEN IF Fails(fault, "UpdateFinalizer", 0)
         THEN Pass(obj, reports, Failed, {}, "finalizer failed")
         ELSE ProvisionAndPoll(
                [obj EXCEPT !.finalizers = @ \cup {metricCollectorFinalizer}],
                fault, {"AddFinalizer"})
    ELSE ProvisionAndPoll(obj, fault, {})

\* reconcileApprovalRequestObj
reconcileApprovalRequestObj(obj, fault) ==
    IF obj.deletionTimestamp THEN handleDelete(obj, fault)
    ELSE IF IsApproved(obj) THEN Pass(obj, reports, Idle, {}, "approved")
    ELSE IF ~ContainsFinalizer(obj, metricCollectorFinalizer)
    THEN IF Fails(fault, "UpdateFinalizer", 0)
         THEN Pass(obj, reports, Failed, {}, "finalizer failed")
         ELSE ProvisionAndPoll(
                [obj EXCEPT !.finalizers = @ \cup {metricCollectorFinalizer}],
                fault, {"AddFinalizer"})
    ELSE ProvisionAndPoll(obj, fault, {})

\* a variant of Requeue that keeps the request queued whatever the pass
\* returned
RequeueAlways(q, req, result) == q \cup {req}

\* the work queue after a pass: a pass that ends Idle is not re-queued
Requeue(q, req, result) == IF result = Idle THEN q \ {req} ELSE q

\* the collectors' queues after the reports changed: creating and deleting a
\* report are events of its namespace's collector
NotifyCollectors(q, before, after) ==
    q \cup ((DOMAIN before \ DOMAIN after) \cup (DOMAIN after \ DOMAIN before))

\* the hub's store after an update of obj: an object under deletion
\* disappears with its last finalizer
Store(objs, req, obj) ==
    IF obj.deletionTimestamp /\ obj.finalizers = {}
    THEN Remove(objs, req)
    ELSE [objs EXCEPT ![req] = obj]

\* the record of a step: the controller that ran, the request it worked on,
\* what the pass returned, where it ended and, for a collector pass, the
\* results its query returned
Observed(op, req, result, verdict) ==
    [ op |-> op, req |-> req, result |-> result, verdict |-> verdict,
      input |-> <<>> ]

NoLast == Observed("none", <<>>, Idle, "")

\* Reconcile of the approval-request controller
Reconcile(req, fault) ==
    /\ req \in queue
    /\ IF req \notin DOMAIN ar
       THEN /\ UNCHANGED <<ar, reports, collectorQueue>>
            /\ queue' = queue \ {req}
            /\ last' = Observed("approval", req, Idle, "not found")
       ELSE \E p \in {reconcileApprovalRequestObj(ar[req], fault)} :
                /\ ar' = Store(ar, req, p.obj)
                /\ reports' = p.reports
                /\ collectorQueue' = NotifyCollectors(collectorQueue, reports, p.reports)
                /\ queue' = Requeue(queue, req, p.result)
                /\ last' = Observed("approval", req, p.result, p.verdict)
    /\ UNCHANGED <<updateRuns, trackers>>

-----------------------------------------------------------------------------
(* Package metriccollector: the Prometheus client and the collector *)

\* A response of the metrics endpoint as the client sees it.
Response(transport, statusCode, decodes, status, result) ==
    [ transport |-> transport, statusCode |-> statusCode, decodes |-> decodes,
      status |-> status, data |-> [resultType |-> "vector", result |-> result] ]

\* prometheusClient.Query: the data of the response, or an error
Query(resp) ==
    IF resp.transport # "ok" THEN [err |-> TRUE, data |-> [result |-> <<>>]]
    ELSE IF resp.statusCode # 200 THEN [err |-> TRUE, data |-> [result |-> <<>>]]
    ELSE IF ~resp.decodes THEN [err |-> TRUE, data |-> [result |-> <<>>]]
    ELSE IF resp.status # "success" THEN [err |-> TRUE, data |-> [result |-> <<>>]]
    ELSE [err |-> FALSE, data |-> resp.data]

DigitValue ==
    ("0" :> 0) @@ ("1" :> 1) @@ ("2" :> 2) @@ ("3" :> 3) @@ ("4" :> 4) @@
    ("5" :> 5) @@ ("6" :> 6) @@ ("7" :> 7) @@ ("8" :> 8) @@ ("9" :> 9)

IsDigit(ch) == ch \in DOMAIN DigitValue

\* the digits of str from position i on: their value and the position after
RECURSIVE ScanDigits(_, _, _, _)
ScanDigits(str, i, acc, n) ==
    IF i <= Len(str) /\ IsDigit(str[i])
    THEN ScanDigits(str, i + 1, acc * 10 + DigitValue[str[i]], n + 1)
    ELSE [value |-> acc, next |-> i, count |-> n]

\* the first three digits after the point, in thousandths
FractionMilli(str, i) ==
    LET d(k) == IF i + k <= Len(str) /\ (\A j \in 0..k : IsDigit(str[i + j]))
                THEN DigitValue[str[i + k]] ELSE 0
    IN  d(0) * 100 + d(1) * 10 + d(2)

\* fmt.Sscanf(valueStr, "%f", &health) on a string given as its characters:
\* the scanned number in thousandths; health keeps its zero value when the
\* text holds no number
SscanfFloatMilli(str) ==
    LET signed == Len(str) >= 1 /\ str[1] \in {"+", "-"}
        start == IF signed THEN 2 ELSE 1
        int == ScanDigits(str, start, 0, 0)
        hasPoint == int.next <= Len(str) /\ str[int.next] = "."
        frac == IF hasPoint THEN ScanDigits(str, int.next + 1, 0, 0)
                ELSE [value |-> 0, next |-> int.next, count |-> 0]
        milli == int.value * 1000
                 + (IF hasPoint THEN FractionMilli(str, int.next + 1) ELSE 0)
    IN  IF int.count + frac.count = 0 THEN 0
        ELSE IF signed /\ str[1] = "-" THEN 0 - milli ELSE milli

\* An element of PrometheusResult.Value, a []interface{} decoded from JSON: a
\* value of a dynamic type, a string with its characters or a number with its
\* digits.
StringValue(chars) == [type |-> "string", text |-> chars]

NumberValue(chars) == [type |-> "float64", text |-> chars]

\* the health value of one result: what Sscanf reads from res.Value[1] when
\* the type assertion to string succeeds, else the zero value
HealthMilli(res) ==
    IF Len(res.value) >= 2 /\ res.value[2].type = "string"
    THEN SscanfFloatMilli(res.value[2].text)
    ELSE 0

\* a variant of WorkloadMetrics that takes a value for healthy only when it
\* equals 1.0
WorkloadMetricsExact(res) ==
    [ workloadName |-> MapGet(res.metric, "app"),
      namespace |-> MapGet(res.metric, "namespace"),
      workloadKind |-> "",
      podName |-> "",
      health |-> HealthMilli(res) = 1000 ]

WorkloadMetrics(res) ==
    [ workloadName |-> MapGet(res.metric, "app"),
      namespace |-> MapGet(res.metric, "namespace"),
      workloadKind |-> "",
      podName |-> "",
      health |-> HealthMilli(res) >= 1000 ]

\* a variant of ExtractMetrics that asks for the namespace label alone
RECURSIVE ExtractMetricsNamespaceOnly(_)
ExtractMetricsNamespaceOnly(result) ==
    IF result = <<>> THEN <<>>
    ELSE LET res == Head(result)
         IN  IF MapGet(res.metric, "namespace") = ""
             THEN ExtractMetricsNamespaceOnly(Tail(result))
             ELSE <<WorkloadMetrics(res)>> \o ExtractMetricsNamespaceOnly(Tail(result))

\* a variant of ExtractMetrics that drops a result whose value is not a text
RECURSIVE ExtractMetricsWithTextValue(_)
ExtractMetricsWithTextValue(result) ==
    IF result = <<>> THEN <<>>
    ELSE LET res == Head(result)
         IN  IF \/ MapGet(res.metric, "namespace") = ""
                \/ MapGet(res.metric, "app") = ""
                \/ Len(res.value) < 2
                \/ res.value[2].type # "string"
             THEN ExtractMetricsWithTextValue(Tail(result))
             ELSE <<WorkloadMetrics(res)>> \o ExtractMetricsWithTextValue(Tail(result))

\* the loop of collectAllWorkloadMetrics over data.Result
RECURSIVE ExtractMetrics(_)
ExtractMetrics(result) ==
    IF result = <<>> THEN <<>>
    ELSE LET res == Head(result)
         IN  IF MapGet(res.metric, "namespace") = "" \/ MapGet(res.metric, "app") = ""
             THEN ExtractMetrics(Tail(result))
             ELSE <<WorkloadMetrics(res)>> \o ExtractMetrics(Tail(result))

\* collectAllWorkloadMetrics: (nil, err) when the query fails
collectAllWorkloadMetrics(resp) ==
    LET q == Query(resp)
    IN  IF q.err THEN [collectedMetrics |-> <<>>, err |-> TRUE]
        ELSE [collectedMetrics |-> ExtractMetrics(q.data.result), err |-> FALSE]

MetricsCollectedCondition(collectErr) ==
    IF collectErr
    THEN [ type |-> MetricCollectorReportConditionTypeMetricsCollected,
           status |-> "False",
           reason |-> MetricCollectorReportConditionReasonCollectionFailed ]
    ELSE [ type |-> MetricCollectorReportConditionTypeMetricsCollected,
           status |-> "True",
           reason |-> MetricCollectorReportConditionReasonCollectionSucceeded ]

\* a variant of CollectedStatus that appends the fetched samples to the list
\* the status already holds
CollectedStatusAppending(status, c) ==
    [ lastCollectionTime |-> "set",
      collectedMetrics |-> status.collectedMetrics \o c.collectedMetrics,
      workloadsMonitored |-> Len(c.collectedMetrics),
      conditions |-> SetStatusCondition(status.conditions,
                                        MetricsCollectedCondition(c.err)) ]

\* a variant of CollectedStatus that leaves the count of workloads as it was
\* when the collection failed
CollectedStatusKeepingCount(status, c) ==
    [ lastCollectionTime |-> "set",
      collectedMetrics |-> c.collectedMetrics,
      workloadsMonitored |-> IF c.err THEN status.workloadsMonitored
                             ELSE Len(c.collectedMetrics),
      conditions |-> SetStatusCondition(status.conditions,
                                        MetricsCollectedCondition(c.err)) ]

\* the status the collector's Reconcile persists
CollectedStatus(status, c) ==
    [ lastCollectionTime |-> "set",
      collectedMetrics |-> c.collectedMetrics,
      workloadsMonitored |-> Len(c.collectedMetrics),
      conditions |-> SetStatusCondition(status.conditions,
                                        MetricsCollectedCondition(c.err)) ]

\* a variant of HubNamespace that gives every collector the namespace of
\* member cluster c1
HubNamespaceOfFirst(memberClusterName) == "fleet-member-c1"

\* main: the hub namespace a collector of member cluster m watches
HubNamespace(memberClusterName) == "fleet-member-" \o memberClusterName

CollectorFaults == {"Get", "UpdateStatus"}

\* a variant of the collector's Reconcile that returns the error of a failed
\* query after persisting the status
CollectorReconcileReturnsQueryError(m, req, resp, fault) ==
    /\ req \in collectorQueue
    /\ req[1] = HubNamespace(m)
    /\ IF fault = "Get"
       THEN /\ UNCHANGED <<reports, collectorQueue>>
            /\ last' = Observed("collector", req, Failed, "error")
       ELSE IF req \notin DOMAIN reports /\ fault = "UpdateStatus"
       THEN /\ UNCHANGED <<reports, collectorQueue>>
            /\ last' = Observed("collector", req, Failed, "error")
       ELSE IF req \notin DOMAIN reports
       THEN /\ UNCHANGED reports
            /\ collectorQueue' = collectorQueue \ {req}
            /\ last' = Observed("collector", req, Idle, "not found")
       ELSE \E c \in {collectAllWorkloadMetrics(resp)} :
                IF fault = "UpdateStatus"
                THEN /\ UNCHANGED <<reports, collectorQueue>>
                     /\ last' = Observed("collector", req, Failed, "error")
                ELSE /\ reports' = [reports EXCEPT ![req].status =
                                       CollectedStatus(@, c)]
                     /\ UNCHANGED collectorQueue
                     /\ last' = [ Observed("collector", req,
                                           IF c.err THEN Failed ELSE RetryAfter30,
                                           IF c.err THEN "query failed"
                                           ELSE "collected")
                                   EXCEPT !.input = Query(resp).data.result ]
    /\ UNCHANGED <<ar, updateRuns, trackers, queue>>

\* a variant of the collector's Reconcile that writes the status of a report
\* it does not find, which creates the report
CollectorReconcileUpserts(m, req, resp, fault) ==
    /\ req \in collectorQueue
    /\ req[1] = HubNamespace(m)
    /\ IF fault = "Get"
       THEN /\ UNCHANGED <<reports, collectorQueue>>
            /\ last' = Observed("collector", req, Failed, "error")
       ELSE LET c == collectAllWorkloadMetrics(resp)
                existing == IF req \in DOMAIN reports THEN reports[req]
                            ELSE [ labels |-> ReportLabels([name |-> ""], "", "", m),
                                   spec |-> [prometheusURL |-> prometheusURL],
                                   status |-> EmptyReportStatus ]
            IN  IF fault = "UpdateStatus"
                THEN /\ UNCHANGED <<reports, collectorQueue>>
                     /\ last' = Observed("collector", req, Failed, "error")
                ELSE /\ reports' = (req :> [existing EXCEPT !.status =
                                                CollectedStatus(@, c)]) @@ reports
                     /\ UNCHANGED collectorQueue
                     /\ last' = [ Observed("collector", req, RetryAfter30,
                                           IF c.err THEN "query failed"
                                           ELSE "collected")
                                   EXCEPT !.input = Query(resp).data.result ]
    /\ UNCHANGED <<ar, updateRuns, trackers, queue>>

\* Reconcile of the metric collector of member cluster m; fault is "none" or
\* the hub call that fails.  The status update also fails when the report the
\* pass has read was deleted before the update: the pass then ends with an
\* error over a report that is gone.
CollectorReconcile(m, req, resp, fault) ==
    /\ req \in collectorQueue
    /\ req[1] = HubNamespace(m)
    /\ IF fault = "Get"
       THEN /\ UNCHANGED <<reports, collectorQueue>>
            /\ last' = Observed("collector", req, Failed, "error")
       ELSE IF req \notin DOMAIN reports /\ fault = "UpdateStatus"
       THEN /\ UNCHANGED <<reports, collectorQueue>>
            /\ last' = Observed("collector", req, Failed, "error")
       ELSE IF req \notin DOMAIN reports
       THEN /\ UNCHANGED reports
            /\ collectorQueue' = collectorQueue \ {req}
            /\ last' = Observed("collector", req, Idle, "not found")
       ELSE \E c \in {collectAllWorkloadMetrics(resp)} :
                IF fault = "UpdateStatus"
                THEN /\ UNCHANGED <<reports, collectorQueue>>
                     /\ last' = Observed("collector", req, Failed, "error")
                ELSE /\ reports' = [reports EXCEPT ![req].status =
                                       CollectedStatus(@, c)]
                     /\ UNCHANGED collectorQueue
                     /\ last' = [ Observed("collector", req, RetryAfter30,
                                           IF c.err THEN "query failed"
                                           ELSE "collected")
                                   EXCEPT !.input = Query(resp).data.result ]
    /\ UNCHANGED <<ar, updateRuns, trackers, queue>>

-----------------------------------------------------------------------------
(* The environment: the orchestrator, the operator and the metrics endpoints *)

PodResult(pod, valueStr) ==
    [ metric |-> [namespace |-> "ns", app |-> "app",
                  workload_kind |-> "Deployment", pod |-> pod],
      value |-> <<NumberValue(<<"0">>), StringValue(valueStr)>> ]

PodNames == [i \in 1..MaxPods |-> "p" \o ToString(i)]

\* the results of up to MaxPods pods of the tracked workload, each reporting
\* workload_health 1 or 0
PodResults ==
    UNION { { [i \in 1..n |-> PodResult(PodNames[i], v[i])] :
                v \in [1..n -> {<<"1">>, <<"0">>}] } : n \in 0..MaxPods }

FailedResponses ==
    { Response("error", 0, FALSE, "", <<>>),
      Response("ok", 500, FALSE, "", <<>>),
      Response("ok", 200, FALSE, "", <<>>),
      Response("ok", 200, TRUE, "error", <<>>) }

Responses ==
    { Response("ok", 200, TRUE, "success", r) : r \in PodResults }
    \cup FailedResponses

Env == Observed("env", <<>>, Idle, "")

\* a user or the orchestrator deletes an approval request
DeleteApprovalRequest(req) ==
    /\ req \in DOMAIN ar
    /\ ~ar[req].deletionTimestamp
    /\ ar' = Store(ar, req, [ar[req] EXCEPT !.deletionTimestamp = TRUE])
    /\ queue' = queue \cup {req}
    /\ last' = Env
    /\ UNCHANGED <<updateRuns, trackers, reports, collectorQueue>>

\* the update run is deleted
DeleteUpdateRun(key) ==
    /\ key \in DOMAIN updateRuns
    /\ updateRuns' = Remove(updateRuns, key)
    /\ last' = Env
    /\ UNCHANGED <<ar, trackers, reports, queue, collectorQueue>>

\* the operator creates the workload tracker of the update run
CreateTracker(key, workloads) ==
    /\ key \notin DOMAIN trackers
    /\ trackers' = (key :> workloads) @@ trackers
    /\ last' = Env
    /\ UNCHANGED <<ar, updateRuns, reports, queue, collectorQueue>>

-----------------------------------------------------------------------------
(* The specification *)

RunKey == <<"", "run-A">>

Init ==
    /\ ar = [req \in {BeforeStageRequest} |-> NewApprovalRequest(req[2])]
    /\ updateRuns \in { [k \in {RunKey} |-> r] : r \in RunChoices }
    /\ trackers = [k \in {} |-> <<>>]
    /\ reports = [k \in {} |-> <<>>]
    /\ queue = {BeforeStageRequest}
    /\ collectorQueue = {}
    /\ last = NoLast

ReconcileStep == \E req \in queue, fault \in Faults : Reconcile(req, fault)

CollectorStep ==
    \E m \in MemberClusters :
      \E req \in {r \in collectorQueue : r[1] = HubNamespace(m)} :
        \/ \E resp \in Responses : CollectorReconcile(m, req, resp, "none")
        \/ \E fault \in CollectorFaults :
             CollectorReconcile(m, req, Response("ok", 200, TRUE, "success", <<>>), fault)

DeleteApprovalRequestStep == \E req \in ApprovalRequests : DeleteApprovalRequest(req)

DeleteUpdateRunStep == DeleteUpdateRun(RunKey)

CreateTrackerStep == \E w \in TrackerChoices : CreateTracker(RunKey, w)

Next ==
    \/ ReconcileStep
    \/ CollectorStep
    \/ DeleteApprovalRequestStep
    \/ DeleteUpdateRunStep
    \/ CreateTrackerStep

Spec == Init /\ [][Next]_vars

-----------------------------------------------------------------------------
(* The collector of one member cluster against a metrics endpoint whose
   results vary in their labels and in the text of their value *)

ScrapeLabels(pod) ==
    [namespace |-> "ns", app |-> "app", workload_kind |-> "Deployment", pod |-> pod]

\* results of workload_health: values at, below and above 1, a result of a
\* pod without the workload_kind and pod labels, results that lack the app
\* label or carry an empty namespace label, a result without a value, one
\* whose value is a JSON number and one whose value text is no number
ScrapeResults ==
    { [metric |-> ScrapeLabels("p1"),
       value |-> <<NumberValue(<<"0">>), StringValue(<<"1">>)>>],
      [metric |-> ScrapeLabels("p1"),
       value |-> <<NumberValue(<<"0">>), StringValue(<<"0", ".", "9", "9", "9">>)>>],
      [metric |-> ScrapeLabels("p2"),
       value |-> <<NumberValue(<<"0">>), StringValue(<<"1", ".", "0">>)>>],
      [metric |-> ScrapeLabels("p2"),
       value |-> <<NumberValue(<<"0">>), StringValue(<<"2">>)>>],
      [metric |-> [namespace |-> "ns", app |-> "web"],
       value |-> <<NumberValue(<<"0">>), StringValue(<<"1", ".", "0", "0", "1">>)>>],
      [metric |-> [namespace |-> "ns", workload_kind |-> "Deployment", pod |-> "p1"],
       value |-> <<NumberValue(<<"0">>), StringValue(<<"1">>)>>],
      [metric |-> [ScrapeLabels("p1") EXCEPT !.namespace = ""],
       value |-> <<NumberValue(<<"0">>), StringValue(<<"1">>)>>],
      [metric |-> ScrapeLabels("p1"), value |-> <<NumberValue(<<"0">>)>>],
      [metric |-> ScrapeLabels("p1"),
       value |-> <<NumberValue(<<"0">>), NumberValue(<<"1">>)>>],
      [metric |-> ScrapeLabels("p1"),
       value |-> <<NumberValue(<<"0">>), StringValue(<<"x">>)>>] }

ScrapeResponses ==
    { Response("ok", 200, TRUE, "success", r) :
        r \in UNION { [1..n -> ScrapeResults] : n \in 0..MaxPods } }
    \cup FailedResponses

\* the update run whose stage s1 holds member cluster c1 alone
ScrapeInit ==
    /\ ar = (BeforeStageRequest :> NewApprovalRequest(BeforeStageRequest[2]))
    /\ updateRuns = (RunKey :> << [stageName |-> "s1",
                                   clusters |-> <<Cluster("c1")>>] >>)
    /\ trackers = << >>
    /\ reports = << >>
    /\ queue = {BeforeStageRequest}
    /\ collectorQueue = {}
    /\ last = NoLast

\* a pass of the approval-request reconciler in which no call fails
ScrapeProvision == Reconcile(BeforeStageRequest, NoFault)

ScrapeCollect ==
    \E m \in MemberClusters, req \in collectorQueue, resp \in ScrapeResponses :
        CollectorReconcile(m, req, resp, "none")

ScrapeCollectFault ==
    \E m \in MemberClusters, req \in collectorQueue, fault \in CollectorFaults :
        CollectorReconcile(m, req, Response("ok", 200, TRUE, "success", <<>>), fault)

ScrapeNext ==
    \/ ScrapeProvision
    \/ ScrapeCollect
    \/ ScrapeCollectFault

ScrapeSpec == ScrapeInit /\ [][ScrapeNext]_vars

-----------------------------------------------------------------------------
(* Two approval requests side by side: a cluster-scoped and a namespaced
   request of equally named update runs, the two requests of one stage, and
   two requests whose run and stage names join to the same text *)

ApprovalRequestFor(namespace, name, updateRunName, stageName) ==
    [ NewApprovalRequest(name) EXCEPT
        !.namespace = namespace,
        !.spec = [targetUpdateRun |-> updateRunName, targetStage |-> stageName] ]

PairChoices ==
    { (<<"", "a1">> :> ApprovalRequestFor("", "a1", "run-A", "s1")) @@
      (<<"ns1", "b1">> :> ApprovalRequestFor("ns1", "b1", "run-A", "s1")),
      (<<"", "a1">> :> ApprovalRequestFor("", "a1", "run-A", "s1")) @@
      (<<"", "a2">> :> ApprovalRequestFor("", "a2", "run-A", "s1")),
      (<<"", "a1">> :> ApprovalRequestFor("", "a1", "a-b", "c")) @@
      (<<"", "a2">> :> ApprovalRequestFor("", "a2", "a", "b-c")) }

\* the cluster-scoped run run-A, the runs of that name in the namespaces ns1
\* and ns2, and the cluster-scoped runs a-b and a
PairUpdateRuns ==
    (<<"", "run-A">> :> << [stageName |-> "s1",
                           clusters |-> <<Cluster("c1"), Cluster("c2")>>] >>) @@
    (<<"ns1", "run-A">> :> << [stageName |-> "s1", clusters |-> <<Cluster("c2")>>] >>) @@
    (<<"ns2", "run-A">> :> << [stageName |-> "s1", clusters |-> <<Cluster("c1")>>] >>) @@
    (<<"", "a-b">> :> << [stageName |-> "c", clusters |-> <<Cluster("c1")>>] >>) @@
    (<<"", "a">> :> << [stageName |-> "b-c", clusters |-> <<Cluster("c1")>>] >>)

\* the tracker of each run; the namespaced trackers of ns1 and ns2 track the
\* workload web, the cluster-scoped trackers the workload app
PairTrackers ==
    [ k \in DOMAIN PairUpdateRuns |->
        IF k[1] = "" THEN <<WorkloadReference("app", "ns", "Deployment", 1)>>
        ELSE <<WorkloadReference("web", "ns", "Deployment", 1)>> ]

WebResult ==
    [ metric |-> [namespace |-> "ns", app |-> "web",
                  workload_kind |-> "Deployment", pod |-> "w1"],
      value |-> <<NumberValue(<<"0">>), StringValue(<<"1">>)>> ]

PairResponses ==
    { Response("ok", 200, TRUE, "success", r) :
        r \in { <<PodResult("p1", <<"1">>)>>, <<PodResult("p1", <<"0">>)>>,
                <<WebResult>>, <<PodResult("p1", <<"1">>), WebResult>> } }

PairInit ==
    /\ ar \in PairChoices
    /\ updateRuns = PairUpdateRuns
    /\ trackers = PairTrackers
    /\ reports = << >>
    /\ queue = DOMAIN ar
    /\ collectorQueue = {}
    /\ last = NoLast

PairReconcile == \E req \in queue : Reconcile(req, NoFault)

PairCollect ==
    \E m \in MemberClusters, req \in collectorQueue, resp \in PairResponses :
        CollectorReconcile(m, req, resp, "none")

PairDelete == \E req \in DOMAIN ar : DeleteApprovalRequest(req)

PairNext ==
    \/ PairReconcile
    \/ PairCollect
    \/ PairDelete

PairSpec == PairInit /\ [][PairNext]_vars

-----------------------------------------------------------------------------
(* The polling loop of one approval request whose stage stays healthy: the
   update run and the tracker exist and stay, nothing is deleted, every
   metrics query succeeds with results that satisfy every tracked workload,
   calls of the hub API may fail but do not fail forever *)

\* the results hold at least healthyReplicas results of value 1 for each
\* tracked workload, of its namespace, name and kind
SatisfiesTracked(result, workloads) ==
    \A j \in 1..Len(workloads) :
        Cardinality({ i \in 1..Len(result) :
                        /\ result[i].metric.namespace = workloads[j].namespace
                        /\ result[i].metric.app = workloads[j].name
                        /\ result[i].metric.workload_kind = workloads[j].kind
                        /\ result[i].value[2] = StringValue(<<"1">>) })
            >= workloads[j].healthyReplicas

LiveInit ==
    /\ ar = (BeforeStageRequest :> NewApprovalRequest(BeforeStageRequest[2]))
    /\ updateRuns \in { (RunKey :> r) : r \in
                          { r \in RunChoices :
                              \E i \in 1..Len(r) :
                                  /\ r[i].stageName = "s1"
                                  /\ Len(r[i].clusters) > 0 } }
    /\ trackers \in { (RunKey :> t) : t \in TrackerChoices \ {<<>>} }
    /\ reports = << >>
    /\ queue = {BeforeStageRequest}
    /\ collectorQueue = {}
    /\ last = NoLast

\* a pass of the approval-request reconciler in which no call fails
LiveReconcile == Reconcile(BeforeStageRequest, NoFault)

\* a pass of the approval-request reconciler in which some call fails
LiveReconcileFault ==
    \E fault \in Faults \ {NoFault} : Reconcile(BeforeStageRequest, fault)

\* a pass of the collector of member cluster m over healthy workloads
LiveCollect(m) ==
    \E req \in collectorQueue, r \in PodResults :
        /\ SatisfiesTracked(r, trackers[RunKey])
        /\ CollectorReconcile(m, req, Response("ok", 200, TRUE, "success", r), "none")

LiveCollectStep == \E m \in MemberClusters : LiveCollect(m)

LiveNext ==
    \/ LiveReconcile
    \/ LiveReconcileFault
    \/ LiveCollectStep

\* the 15 s and 30 s requeues run every queued request again and again, and
\* a call that fails does not fail forever
LiveSpec ==
    /\ LiveInit
    /\ [][LiveNext]_vars
    /\ WF_vars(LiveReconcile)
    /\ \A m \in MemberClusters : WF_vars(LiveCollect(m))

-----------------------------------------------------------------------------
(* The terms of the claims *)

\* the approval request has the condition Approved=True
HasApprovedTrue(obj) ==
    \E i \in 1..Len(obj.conditions) :
        obj.conditions[i].type = "Approved" /\ obj.conditions[i].status = "True"

\* the most recent step was a reconcile pass over req that set Approved=True
JustApproved(req) ==
    /\ last.op = "approval" /\ last.req = req
    /\ last.verdict = "healthy" /\ last.result = RetryAfter15

\* the cluster list of the stage req targets, <<>> when the update run or the
\* stage does not exist
StageClusters(obj) ==
    LET runKey == <<obj.namespace, obj.spec.targetUpdateRun>>
    IN  IF runKey \notin DOMAIN updateRuns THEN <<>>
        ELSE LET named == { i \in 1..Len(updateRuns[runKey]) :
                              updateRuns[runKey][i].stageName = obj.spec.targetStage }
             IN  IF named = {} THEN <<>>
                 ELSE LET s == CHOOSE i \in named : \A j \in named : i <= j
                      IN  [ i \in 1..Len(updateRuns[runKey][s].clusters) |->
                              updateRuns[runKey][s].clusters[i].clusterName ]

Range(seq) == {seq[i] : i \in 1..Len(seq)}

\* the identity of the MetricReport of obj's stage in the namespace of cluster c
ReportIdentity(obj, c) ==
    << "fleet-member-" \o c,
       "mc-" \o obj.spec.targetUpdateRun \o "-" \o obj.spec.targetStage >>

\* the workloads of the tracker of obj's update run, <<>> when there is none
TrackedWorkloads(obj) ==
    LET key == <<obj.namespace, obj.spec.targetUpdateRun>>
    IN  IF key \in DOMAIN trackers THEN trackers[key] ELSE <<>>

SamplesOf(key) ==
    IF key \in DOMAIN reports THEN reports[key].status.collectedMetrics ELSE <<>>

\* strings.EqualFold on the workload kinds that occur
LowerKind(kind) ==
    CASE kind \in {"Deployment", "DEPLOYMENT", "deployment"} -> "deployment"
      [] kind \in {"StatefulSet", "statefulset"} -> "statefulset"
      [] OTHER -> kind

\* a sample is one of the tracked workload: same namespace and name, and the
\* same kind ignoring case when the tracker sets a kind
MatchesWorkload(sample, w) ==
    /\ sample.namespace = w.namespace
    /\ sample.workloadName = w.name
    /\ w.kind # "" => LowerKind(sample.workloadKind) = LowerKind(w.kind)

\* a sample has the namespace and name of the tracked workload
SameWorkloadName(sample, w) ==
    sample.namespace = w.namespace /\ sample.workloadName = w.name

\* the number of healthy samples of the workload's namespace and name
HealthyCount(samples, w) ==
    Cardinality({ i \in 1..Len(samples) :
                    SameWorkloadName(samples[i], w) /\ samples[i].health })

-----------------------------------------------------------------------------
(* The claims *)

\* C1: a pass that sets Approved=True has read, for every cluster of the
\* stage and every tracked workload, at least healthyReplicas healthy samples
\* of that workload in the cluster's report.
C1_ApprovalNeedsHealthyReplicas ==
    \A req \in DOMAIN ar :
        JustApproved(req) =>
            \A c \in Range(StageClusters(ar[req])) :
                \A j \in 1..Len(TrackedWorkloads(ar[req])) :
                    HealthyCount(SamplesOf(ReportIdentity(ar[req], c)),
                                 TrackedWorkloads(ar[req])[j])
                        >= TrackedWorkloads(ar[req])[j].healthyReplicas

\* C2: a collector pass whose query fails persists a status that keeps
\* collectedMetrics as they were and has MetricsCollected=False with reason
\* CollectionFailed.
C2_FailedQueryKeepsSamples ==
    [][ (last'.op = "collector" /\ last'.verdict = "query failed") =>
          /\ reports'[last'.req].status.collectedMetrics
               = reports[last'.req].status.collectedMetrics
          /\ \E i \in 1..Len(reports'[last'.req].status.conditions) :
               reports'[last'.req].status.conditions[i]
                 = [ type |-> "MetricsCollected", status |-> "False",
                     reason |-> "CollectionFailed" ] ]_vars

\* C3: once the deletion of an approval request has completed (its finalizer
\* was removed and the object is gone), no MetricReport provisioned for it
\* remains in any fleet-member namespace.
C3_NoReportOutlivesItsRequest ==
    \A k \in DOMAIN reports :
        \E req \in DOMAIN ar : ar[req].name = reports[k].labels.approvalRequest

\* C4 as stated: once an approval request has Approved=True, no later pass
\* over it creates, updates or deletes a MetricReport or writes its
\* conditions.
C4_NoWriteAfterApproval ==
    [][ \A req \in DOMAIN ar :
          (HasApprovedTrue(ar[req]) /\ last'.op = "approval" /\ last'.req = req)
            => /\ reports' = reports
               /\ req \in DOMAIN ar' => ar'[req].conditions = ar[req].conditions
      ]_vars

\* C4 amended: once an approval request has Approved=True, a later pass over
\* it takes the terminal branch or the cleanup branch only: it creates and
\* updates no MetricReport and writes no condition, and it deletes reports
\* only when the request has a deletion timestamp and carries the finalizer.
C4_OnlyCleanupWritesAfterApproval ==
    [][ \A req \in DOMAIN ar :
          (HasApprovedTrue(ar[req]) /\ last'.op = "approval" /\ last'.req = req)
            => /\ last'.verdict \in {"approved", "cleanup"}
               /\ \A k \in DOMAIN reports' :
                    k \in DOMAIN reports /\ reports'[k] = reports[k]
               /\ req \in DOMAIN ar' => ar'[req].conditions = ar[req].conditions
               /\ reports' # reports =>
                    /\ ar[req].deletionTimestamp
                    /\ metricCollectorFinalizer \in ar[req].finalizers
      ]_vars

\* a pass has just run over an approved request that is not being deleted
C4_Witness ==
    /\ last.op = "approval" /\ last.verdict = "approved"
    /\ last.req \in DOMAIN ar
    /\ HasApprovedTrue(ar[last.req])
    /\ ~ar[last.req].deletionTimestamp
    /\ reports # << >>

\* C5: no step leaves an Approved condition with status False, no step
\* changes the conditions of a request that has Approved=True, and a pass
\* that evaluates the stage as unhealthy leaves the conditions as they were.
C5_NeverDisapproves ==
    [][ \A req \in DOMAIN ar :
          /\ req \in DOMAIN ar' =>
               \A i \in 1..Len(ar'[req].conditions) :
                   ar'[req].conditions[i].type = "Approved"
                     => ar'[req].conditions[i].status = "True"
          /\ (HasApprovedTrue(ar[req]) /\ req \in DOMAIN ar')
               => ar'[req].conditions = ar[req].conditions
          /\ (last'.op = "approval" /\ last'.req = req
                /\ last'.verdict = "unhealthy")
               => /\ req \in DOMAIN ar'
                  /\ ar'[req].conditions = ar[req].conditions
      ]_vars

\* a pass has just evaluated a stage with an unhealthy sample as unhealthy
C5_Witness ==
    /\ last.op = "approval" /\ last.verdict = "unhealthy"
    /\ last.req \in DOMAIN ar
    /\ ar[last.req].conditions = <<>>
    /\ \E k \in DOMAIN reports :
         \E i \in 1..Len(reports[k].status.collectedMetrics) :
             ~reports[k].status.collectedMetrics[i].health

\* C6: a pass that sets Approved=True has found, for every cluster of the
\* stage, a MetricReport that holds a sample matching each tracked workload.
C6_NoApprovalWithoutMatchingSample ==
    \A req \in DOMAIN ar :
        JustApproved(req) =>
            \A c \in Range(StageClusters(ar[req])) :
                /\ ReportIdentity(ar[req], c) \in DOMAIN reports
                /\ \A j \in 1..Len(TrackedWorkloads(ar[req])) :
                     \E i \in 1..Len(SamplesOf(ReportIdentity(ar[req], c))) :
                         MatchesWorkload(SamplesOf(ReportIdentity(ar[req], c))[i],
                                         TrackedWorkloads(ar[req])[j])

\* C7: a tracked workload that sets a kind is made healthy only by healthy
\* samples of its namespace, name and kind (ignoring case): when a pass
\* approves, every such workload has one in every cluster's report.
C7_KindNarrowsMatching ==
    \A req \in DOMAIN ar :
        JustApproved(req) =>
            \A c \in Range(StageClusters(ar[req])) :
                \A j \in 1..Len(TrackedWorkloads(ar[req])) :
                    LET w == TrackedWorkloads(ar[req])[j]
                        samples == SamplesOf(ReportIdentity(ar[req], c))
                    IN  w.kind # "" =>
                          \E i \in 1..Len(samples) :
                              /\ samples[i].health
                              /\ samples[i].namespace = w.namespace
                              /\ samples[i].workloadName = w.name
                              /\ LowerKind(samples[i].workloadKind) = LowerKind(w.kind)

\* C8: while the update run, its stage and the tracker exist and every
\* collector keeps writing samples that satisfy every tracked workload, the
\* polling loop ends in Approved=True with reason AllWorkloadsHealthy: a pass
\* that returns without error while every cluster's report holds at least
\* healthyReplicas healthy samples of every tracked workload leaves the
\* request approved (the samples and the pass repeat unchanged otherwise).
C8_SatisfiedStageGetsApproved ==
    \A req \in DOMAIN ar :
        ( /\ last.op = "approval" /\ last.req = req
          /\ last.result = RetryAfter15
          /\ TrackedWorkloads(ar[req]) # <<>>
          /\ \A c \in Range(StageClusters(ar[req])) :
               \A j \in 1..Len(TrackedWorkloads(ar[req])) :
                   HealthyCount(SamplesOf(ReportIdentity(ar[req], c)),
                                TrackedWorkloads(ar[req])[j])
                     >= TrackedWorkloads(ar[req])[j].healthyReplicas )
          => \E i \in 1..Len(ar[req].conditions) :
                 ar[req].conditions[i]
                   = [ type |-> "Approved", status |-> "True",
                       reason |-> "AllWorkloadsHealthy" ]

\* C9: after a pass that returns without error over a request that is
\* neither deleted nor approved, every cluster of the stage has a MetricReport
\* mc-<updateRun>-<stage> in fleet-member-<cluster> with the configured
\* Prometheus URL.
C9_EnsureProvisionsEveryCluster ==
    \A req \in DOMAIN ar :
        ( /\ last.op = "approval" /\ last.req = req
          /\ last.result \in {Idle, RetryAfter15}
          /\ last.verdict \notin {"approved", "cleanup", "not found"} )
          => \A c \in Range(StageClusters(ar[req])) :
                 /\ ReportIdentity(ar[req], c) \in DOMAIN reports
                 /\ reports[ReportIdentity(ar[req], c)].spec.prometheusURL
                      = "http://prometheus.prometheus.svc.cluster.local:9090"

\* an errorless pass has just run over a stage of two clusters
C9_Witness ==
    /\ last.op = "approval" /\ last.result = RetryAfter15
    /\ last.req \in DOMAIN ar
    /\ Len(StageClusters(ar[last.req])) = 2
    /\ \A c \in Range(StageClusters(ar[last.req])) :
         ReportIdentity(ar[last.req], c) \in DOMAIN reports

\* the clusters in whose fleet-member namespace a report of obj's stage exists
ClustersWithReport(obj) ==
    { c \in MemberClusters : ReportIdentity(obj, c) \in DOMAIN reports }

StageExists(obj) ==
    /\ <<obj.namespace, obj.spec.targetUpdateRun>> \in DOMAIN updateRuns
    /\ \E i \in 1..Len(updateRuns[<<obj.namespace, obj.spec.targetUpdateRun>>]) :
         updateRuns[<<obj.namespace, obj.spec.targetUpdateRun>>][i].stageName
           = obj.spec.targetStage

\* the step is a pass of the approval-request reconciler over req
PassOver(req) == last'.op = "approval" /\ last'.req = req

\* C11: a pass in which the write of some cluster's MetricReport fails stops
\* the Ensure loop at that cluster: the pass returns an error, leaves the
\* conditions as they were, has provisioned the clusters before the failing
\* one and has touched no report from it on; a pass that returns without
\* error has provisioned every cluster of the stage.
C11_EnsureStopsAtFailure ==
    [][ \A req \in DOMAIN ar :
          PassOver(req) =>
            /\ last'.verdict = "ensure failed" =>
                 /\ last'.result = Failed
                 /\ req \in DOMAIN ar' /\ ar'[req].conditions = ar[req].conditions
                 /\ \A k \in DOMAIN reports :
                      k \in DOMAIN reports' /\ reports'[k] = reports[k]
                 /\ \E i \in 1..Len(StageClusters(ar[req])) :
                      /\ \A j \in 1..(i - 1) :
                           ReportIdentity(ar[req], StageClusters(ar[req])[j])
                             \in DOMAIN reports'
                      /\ \A j \in i..Len(StageClusters(ar[req])) :
                           ReportIdentity(ar[req], StageClusters(ar[req])[j])
                             \in DOMAIN reports'
                           => ReportIdentity(ar[req], StageClusters(ar[req])[j])
                                \in DOMAIN reports
            /\ last'.result = RetryAfter15 =>
                 \A c \in Range(StageClusters(ar[req])) :
                     ReportIdentity(ar[req], c) \in DOMAIN reports'
      ]_vars

\* a pass whose write for the second cluster failed has kept the report it
\* created for the first and has left the request without condition
C11_Witness ==
    /\ last.op = "approval" /\ last.verdict = "ensure failed" /\ last.result = Failed
    /\ last.req \in DOMAIN ar /\ last.req \in queue
    /\ ar[last.req].conditions = <<>>
    /\ ReportIdentity(ar[last.req], "c1") \in DOMAIN reports
    /\ ReportIdentity(ar[last.req], "c2") \notin DOMAIN reports

\* C12: in every reachable state, Ensure run for a request and the cluster
\* list of its stage, and then run again on the reports it left, leaves every
\* report as the first run left it, and the second run writes nothing.
C12_EnsureIsIdempotent ==
    \A req \in DOMAIN ar :
        LET obj == ar[req]
            first == ensureMetricCollectorReports(
                         reports, obj, StageClusters(obj),
                         obj.spec.targetUpdateRun, obj.spec.targetStage, NoFault)
            second == ensureMetricCollectorReports(
                          first.reports, obj, StageClusters(obj),
                          obj.spec.targetUpdateRun, obj.spec.targetStage, NoFault)
        IN  /\ ~first.err /\ ~second.err
            /\ second.reports = first.reports
            /\ second.writes = {}

\* a pass has just run Ensure over reports that an earlier pass created and
\* the collectors have filled since
C12_Witness ==
    /\ last.op = "approval" /\ last.result = RetryAfter15
    /\ last.req \in DOMAIN ar
    /\ Len(StageClusters(ar[last.req])) = 2
    /\ \A c \in Range(StageClusters(ar[last.req])) :
         /\ ReportIdentity(ar[last.req], c) \in DOMAIN reports
         /\ reports[ReportIdentity(ar[last.req], c)].status.collectedMetrics # <<>>

\* C13: a cleanup pass over a request whose update run is gone, or has no
\* stage of the target name, removes the finalizer and returns success
\* without re-queue whenever the update that removes the finalizer does not
\* fail, so the request disappears.
C13_CleanupWithoutStage ==
    [][ \A req \in DOMAIN ar :
          ( /\ ar[req].deletionTimestamp
            /\ metricCollectorFinalizer \in ar[req].finalizers
            /\ ~StageExists(ar[req]) )
            => \A fault \in Faults :
                   (fault.call # "UpdateFinalizer" /\ Reconcile(req, fault))
                     => /\ req \notin DOMAIN ar'
                        /\ last'.result = Idle
                        /\ req \notin queue'
      ]_vars

\* the deletion of a request has completed although its update run is gone
C13_Witness ==
    /\ last.op = "approval" /\ last.verdict = "cleanup" /\ last.result = Idle
    /\ last.req \notin DOMAIN ar
    /\ last.req \notin queue
    /\ <<"", "run-A">> \notin DOMAIN updateRuns

\* C14: every pass over a request that is neither deleted nor approved and
\* that ends without error returns RetryAfter(15 s) and leaves the request
\* queued: with an unhealthy stage, a missing or empty tracker and an empty
\* cluster list alike.
C14_ErrorlessPassRequeues ==
    [][ \A req \in DOMAIN ar :
          ( /\ ~ar[req].deletionTimestamp
            /\ ~HasApprovedTrue(ar[req])
            /\ PassOver(req)
            /\ last'.result # Failed )
            => /\ last'.result = RetryAfter15
               /\ req \in queue'
      ]_vars

\* C15: a pass over a request that is neither deleted nor approved and whose
\* stage exists with an empty cluster list creates no MetricReport and leaves
\* the conditions as they are, and returns no error when none of its calls
\* fails.
C15_EmptyClusterList ==
    [][ \A req \in DOMAIN ar :
          ( /\ ~ar[req].deletionTimestamp
            /\ ~HasApprovedTrue(ar[req])
            /\ StageExists(ar[req])
            /\ StageClusters(ar[req]) = <<>> )
            => /\ PassOver(req) =>
                    /\ reports' = reports
                    /\ req \in DOMAIN ar'
                    /\ ar'[req].conditions = ar[req].conditions
               /\ Reconcile(req, NoFault) => last'.result # Failed
      ]_vars

\* a pass has run over a stage without clusters although a tracker with a
\* workload exists
C15_Witness ==
    /\ last.op = "approval" /\ last.result # Failed
    /\ last.req \in DOMAIN ar
    /\ ~ar[last.req].deletionTimestamp
    /\ StageExists(ar[last.req])
    /\ StageClusters(ar[last.req]) = <<>>
    /\ TrackedWorkloads(ar[last.req]) # <<>>
    /\ ar[last.req].conditions = <<>>
    /\ reports = << >>

\* C16: a pass over a request that is neither deleted nor approved, while the
\* tracker of its update run is absent or lists no workload, leaves the
\* conditions as they are; when none of its calls fails it returns no error
\* and every cluster of the stage has its MetricReport afterwards.
C16_NoTrackerNoApproval ==
    [][ \A req \in DOMAIN ar :
          ( /\ ~ar[req].deletionTimestamp
            /\ ~HasApprovedTrue(ar[req])
            /\ TrackedWorkloads(ar[req]) = <<>> )
            => /\ PassOver(req) =>
                    /\ req \in DOMAIN ar'
                    /\ ar'[req].conditions = ar[req].conditions
               /\ (StageExists(ar[req]) /\ Reconcile(req, NoFault)) =>
                    /\ last'.result # Failed
                    /\ \A c \in Range(StageClusters(ar[req])) :
                         ReportIdentity(ar[req], c) \in DOMAIN reports'
      ]_vars

\* a pass has provisioned both clusters of the stage while the tracker exists
\* without workloads, and the request has no condition
C16_Witness ==
    /\ last.op = "approval" /\ last.result = RetryAfter15
    /\ last.req \in DOMAIN ar
    /\ <<"", ar[last.req].spec.targetUpdateRun>> \in DOMAIN trackers
    /\ TrackedWorkloads(ar[last.req]) = <<>>
    /\ ar[last.req].conditions = <<>>
    /\ ClustersWithReport(ar[last.req]) = {"c1", "c2"}

\* C17: a pass over a request that is neither deleted nor approved, whose
\* update run does not exist, has no stage of the target name or cannot be
\* read, returns Failed, leaves every MetricReport and the conditions as they
\* are, and stays queued for the retry.
C17_NoStageFails ==
    [][ \A req \in DOMAIN ar :
          ( /\ ~ar[req].deletionTimestamp
            /\ ~HasApprovedTrue(ar[req])
            /\ \/ ~StageExists(ar[req]) /\ PassOver(req)
               \/ Reconcile(req, [call |-> "GetUpdateRun", at |-> 0]) )
            => /\ last'.result = Failed
               /\ reports' = reports
               /\ req \in DOMAIN ar'
               /\ ar'[req].conditions = ar[req].conditions
               /\ req \in queue'
      ]_vars

\* a pass has failed over a request that carries the finalizer and whose
\* update run has no stage of the target name
C17_Witness ==
    /\ last.op = "approval" /\ last.result = Failed
    /\ last.req \in DOMAIN ar
    /\ ~ar[last.req].deletionTimestamp
    /\ metricCollectorFinalizer \in ar[last.req].finalizers
    /\ <<"", ar[last.req].spec.targetUpdateRun>> \in DOMAIN updateRuns
    /\ ~StageExists(ar[last.req])

\* C18 as stated: a pass without failing call over a request that is neither
\* deleted nor approved and whose update run or stage is not there returns
\* RetryAfter(15 s).
C18_MissingStageIsAwaited ==
    [][ \A req \in DOMAIN ar :
          ( /\ ~ar[req].deletionTimestamp
            /\ ~HasApprovedTrue(ar[req])
            /\ ~StageExists(ar[req])
            /\ Reconcile(req, NoFault) )
            => last'.result = RetryAfter15
      ]_vars

\* C18 amended: a pass over a request that is neither deleted nor approved
\* returns Failed, never RetryAfter(15 s), while the update run or the stage
\* is not there; once the stage is there with clusters, the pass without
\* failing call returns RetryAfter(15 s) whether or not the tracker exists and
\* the reports are filled.
C18_MissingStageIsAnError ==
    [][ \A req \in DOMAIN ar :
          (~ar[req].deletionTimestamp /\ ~HasApprovedTrue(ar[req]))
            => /\ (~StageExists(ar[req]) /\ PassOver(req))
                    => last'.result = Failed /\ req \in queue'
               /\ ( /\ StageExists(ar[req])
                    /\ StageClusters(ar[req]) # <<>>
                    /\ Reconcile(req, NoFault) )
                    => last'.result = RetryAfter15 /\ req \in queue'
      ]_vars

\* a pass has failed over a request whose update run does not exist
C18_Witness ==
    /\ last.op = "approval" /\ last.result = Failed
    /\ last.verdict = "no update run"
    /\ last.req \in DOMAIN ar /\ last.req \in queue
    /\ ~ar[last.req].deletionTimestamp
    /\ <<"", ar[last.req].spec.targetUpdateRun>> \notin DOMAIN updateRuns

\* C19: a pass in which an API call fails returns Failed.  The read of the
\* update run is made by every provisioning pass and every cleanup pass, the
\* read of each cluster's report by every cleanup pass that knows the stage's
\* clusters, the delete of each existing report likewise, the update of the
\* finalizer by every pass over a request that lacks it.
C19_NoFailureIsSwallowed ==
    [][ \A req \in DOMAIN ar :
          LET obj == ar[req]
              provisioning == ~obj.deletionTimestamp /\ ~HasApprovedTrue(obj)
              cleanup == /\ obj.deletionTimestamp
                         /\ metricCollectorFinalizer \in obj.finalizers
          IN  /\ ( /\ provisioning \/ cleanup
                   /\ Reconcile(req, [call |-> "GetUpdateRun", at |-> 0]) )
                   => last'.result = Failed
              /\ ( /\ provisioning
                   /\ metricCollectorFinalizer \notin obj.finalizers
                   /\ Reconcile(req, [call |-> "UpdateFinalizer", at |-> 0]) )
                   => last'.result = Failed
              /\ cleanup =>
                   \A i \in 1..Len(StageClusters(obj)) :
                       /\ Reconcile(req, [call |-> "GetReport", at |-> i])
                            => last'.result = Failed
                       /\ ( /\ ReportIdentity(obj, StageClusters(obj)[i])
                                 \in DOMAIN reports
                            /\ Reconcile(req, [call |-> "DeleteReport", at |-> i]) )
                            => last'.result = Failed
      ]_vars

\* C20: a pass over an approved request that is not deleted makes no API
\* write whatever call would fail, returns Idle and changes nothing; and a
\* pass over an approved request leaves the object as it is unless it removes
\* the finalizer of a request that has a deletion timestamp, with which the
\* object disappears.
C20_ApprovedIsLeftAlone ==
    [][ \A req \in DOMAIN ar :
          HasApprovedTrue(ar[req]) =>
            /\ ~ar[req].deletionTimestamp =>
                 /\ \A fault \in Faults :
                        reconcileApprovalRequestObj(ar[req], fault).writes = {}
                 /\ PassOver(req) =>
                        /\ last'.result = Idle
                        /\ ar' = ar /\ reports' = reports
                        /\ req \notin queue'
            /\ PassOver(req) =>
                 /\ req \in DOMAIN ar' => ar'[req] = ar[req]
                 /\ req \notin DOMAIN ar' =>
                        /\ ar[req].deletionTimestamp
                        /\ ar[req].finalizers = {metricCollectorFinalizer}
      ]_vars

\* a pass over an approved request has returned Idle: the request has left
\* the queue and still carries its finalizer
C20_Witness ==
    /\ last.op = "approval" /\ last.result = Idle
    /\ last.req \in DOMAIN ar /\ last.req \notin queue
    /\ HasApprovedTrue(ar[last.req])
    /\ ~ar[last.req].deletionTimestamp
    /\ ar[last.req].finalizers = {metricCollectorFinalizer}

\* a pass of the collector of member cluster m over request req, with any
\* response of its metrics endpoint and any failing call
CollectorPass(m, req) ==
    \/ CollectorReconcile(m, req,
                          Response("ok", 200, TRUE, "success", last'.input), "none")
    \/ \E resp \in FailedResponses : CollectorReconcile(m, req, resp, "none")
    \/ \E fault \in CollectorFaults :
         CollectorReconcile(m, req, Response("ok", 200, TRUE, "success", <<>>), fault)

\* the namespace the collector of member cluster m is to watch
NamespaceWatchedBy == [m \in MemberClusters |-> "fleet-member-" \o m]

\* C21: the collector started with member cluster name m reconciles only
\* requests of namespace fleet-member-m, and a pass of it leaves every report
\* of every other namespace as it was.
C21_CollectorStaysInItsNamespace ==
    [][ \A m \in MemberClusters : \A req \in collectorQueue :
          \/ /\ req[1] = NamespaceWatchedBy[m]
             /\ \A k \in DOMAIN reports :
                  k[1] # NamespaceWatchedBy[m]
                    => k \in DOMAIN reports' /\ reports'[k] = reports[k]
          \/ ~(last'.op = "collector" /\ last'.req = req /\ CollectorPass(m, req))
      ]_vars

\* the collector of one member cluster has written the status of its report
\* while the report of another namespace exists and is still as it was created
C21_Witness ==
    /\ last.op = "collector"
    /\ last.verdict = "collected"
    /\ last.req \in DOMAIN reports
    /\ reports[last.req].status.lastCollectionTime = "set"
    /\ \E k \in DOMAIN reports :
         /\ k[1] # last.req[1]
         /\ reports[k].status = EmptyReportStatus

\* C22: on a report that exists before and after a step, a pass of the
\* collector leaves the spec and the labels as they were, and a pass of the
\* approval-request reconciler leaves the status as it was.
C22_WritersKeepToTheirFields ==
    [][ \A k \in DOMAIN reports \cap DOMAIN reports' :
          /\ last'.op = "collector"
               => /\ reports'[k].spec = reports[k].spec
                  /\ reports'[k].labels = reports[k].labels
          /\ last'.op = "approval"
               => reports'[k].status = reports[k].status
      ]_vars

\* the reconciler has ensured and read a report whose status the collector
\* had written, and the report still carries that status and its labels
C22_Witness ==
    /\ last.op = "approval"
    /\ last.verdict \in {"unhealthy", "healthy", "tracker not found"}
    /\ \E k \in DOMAIN reports :
         /\ reports[k].status.lastCollectionTime = "set"
         /\ reports[k].status.collectedMetrics # <<>>
         /\ reports[k].labels.cluster \in MemberClusters
         /\ reports[k].spec.prometheusURL = prometheusURL

\* C23: a pass of the collector that found its report and persisted the
\* status, after a query that succeeded or after one that failed, returns
\* RetryAfter(30 s) and its request stays queued.
C23_PersistedPassRetriesIn30s ==
    (last.op = "collector" /\ last.verdict \in {"collected", "query failed"})
      => /\ last.result = RetryAfter30
         /\ last.req \in collectorQueue
         /\ last.req \in DOMAIN reports
         /\ reports[last.req].status.lastCollectionTime = "set"

\* a pass has persisted the status of a failed query
C23_Witness ==
    /\ last.op = "collector"
    /\ last.verdict = "query failed"
    /\ last.result = RetryAfter30
    /\ FindStatusCondition(reports[last.req].status.conditions,
                           "MetricsCollected").status = "False"

\* C24: after a collector pass whose query succeeded, the status of the
\* report holds exactly the samples parsed from the results of that query,
\* whatever it held before, workloadsMonitored is their number and the
\* MetricsCollected condition is True.
C24_StatusHoldsTheFetchedSamples ==
    (last.op = "collector" /\ last.verdict = "collected")
      => LET status == reports[last.req].status
         IN  /\ status.collectedMetrics = ExtractMetrics(last.input)
             /\ status.workloadsMonitored = Len(ExtractMetrics(last.input))
             /\ FindStatusCondition(status.conditions, "MetricsCollected").status
                  = "True"
             /\ status.lastCollectionTime = "set"

\* a successful query of two results of which one was retained
C24_Witness ==
    /\ last.op = "collector"
    /\ last.verdict = "collected"
    /\ Len(last.input) = 2
    /\ reports[last.req].status.workloadsMonitored = 1
    /\ Len(reports[last.req].status.collectedMetrics) = 1

\* the number, in thousandths, that each value text of the endpoint denotes
GaugeThousandths ==
    (<<"1">> :> 1000) @@ (<<"0", ".", "9", "9", "9">> :> 999) @@
    (<<"1", ".", "0">> :> 1000) @@ (<<"2">> :> 2000) @@
    (<<"1", ".", "0", "0", "1">> :> 1001)

\* the result carries a non-empty namespace label and a non-empty app label
HasWorkloadLabels(res) ==
    /\ "namespace" \in DOMAIN res.metric /\ res.metric.namespace # ""
    /\ "app" \in DOMAIN res.metric /\ res.metric.app # ""

\* the results of a query that carry both labels, in the order of the response
RetainedResults(input) == SelectSeq(input, HasWorkloadLabels)

C26_OneSamplePerLabelledResult ==
    (last.op = "collector" /\ last.verdict = "collected")
      => LET kept == RetainedResults(last.input)
             status == reports[last.req].status
         IN  /\ Len(status.collectedMetrics) = Len(kept)
             /\ \A i \in 1..Len(kept) :
                  /\ status.collectedMetrics[i].namespace = kept[i].metric.namespace
                  /\ status.collectedMetrics[i].workloadName = kept[i].metric.app
             /\ FindStatusCondition(status.conditions, "MetricsCollected").status
                  = "True"
             /\ ~collectAllWorkloadMetrics(
                   Response("ok", 200, TRUE, "success", last.input)).err

\* a query returned a result without the app label and a result with an empty
\* namespace label, and the pass collected no sample
C26_Witness ==
    /\ last.op = "collector"
    /\ last.verdict = "collected"
    /\ Len(last.input) = 2
    /\ "app" \notin DOMAIN last.input[1].metric
    /\ "namespace" \in DOMAIN last.input[2].metric
    /\ last.input[2].metric.namespace = ""
    /\ reports[last.req].status.collectedMetrics = <<>>
    /\ reports[last.req].status.lastCollectionTime = "set"

\* C27: the sample of every retained result carries the workload_kind label
\* of the result as its workloadKind and the pod label as its podName,
\* whenever the result has those labels.
C27_SampleCarriesKindAndPod ==
    (last.op = "collector" /\ last.verdict = "collected")
      => LET kept == RetainedResults(last.input)
             samples == reports[last.req].status.collectedMetrics
         IN  Len(samples) = Len(kept)
               => \A i \in 1..Len(kept) :
                    /\ "workload_kind" \in DOMAIN kept[i].metric
                         => samples[i].workloadKind = kept[i].metric.workload_kind
                    /\ "pod" \in DOMAIN kept[i].metric
                         => samples[i].podName = kept[i].metric.pod

\* the reports with the samples of report key rearranged by p
WithSamplesPermuted(key, p) ==
    [ reports EXCEPT ![key].status.collectedMetrics =
        [i \in 1..Len(SamplesOf(key)) |-> SamplesOf(key)[p[i]]] ]

\* the outcome of the health check of obj's stage over the reports rep
HealthDecision(rep, obj) ==
    checkWorkloadHealthAndApprove(rep, obj, StageClusters(obj),
                                  obj.spec.targetUpdateRun, obj.spec.targetStage,
                                  NoFault).verdict

\* C28: the health decision for a stage is the same for every order of the
\* samples in each of its reports.
C28_DecisionIgnoresSampleOrder ==
    \A req \in DOMAIN ar :
      \A c \in Range(StageClusters(ar[req])) :
        ReportIdentity(ar[req], c) \in DOMAIN reports
          => \A p \in Permutations(1..Len(SamplesOf(ReportIdentity(ar[req], c)))) :
               HealthDecision(WithSamplesPermuted(ReportIdentity(ar[req], c), p), ar[req])
                 = HealthDecision(reports, ar[req])

\* C29: when two successive successful collector passes over the same report
\* receive the same results, the second leaves the status as the first wrote
\* it: samples, workloadsMonitored and the MetricsCollected condition.
C29_SameResponseSameStatus ==
    [][ ( /\ last.op = "collector" /\ last.verdict = "collected"
          /\ last'.op = "collector" /\ last'.verdict = "collected"
          /\ last'.req = last.req
          /\ last'.input = last.input
          /\ last.req \in DOMAIN reports /\ last.req \in DOMAIN reports' )
          => /\ reports'[last.req].status.collectedMetrics
                  = reports[last.req].status.collectedMetrics
             /\ reports'[last.req].status.workloadsMonitored
                  = reports[last.req].status.workloadsMonitored
             /\ reports'[last.req].status.conditions
                  = reports[last.req].status.conditions
      ]_vars

\* a successful pass over two results has left one MetricsCollected condition
C29_Witness ==
    /\ last.op = "collector"
    /\ last.verdict = "collected"
    /\ Len(last.input) = 2
    /\ Len(reports[last.req].status.collectedMetrics) = 2
    /\ Len(reports[last.req].status.conditions) = 1
    /\ reports[last.req].status.conditions[1].status = "True"

\* C30: a pass without a failing call over a request that is being deleted,
\* carries the finalizer and has Approved=True runs the cleanup: it removes
\* the finalizer, so the request is gone after the pass, and when the stage
\* can be resolved none of the stage's reports is left.
C30_ApprovedRequestIsCleanedUp ==
    [][ \A req \in DOMAIN ar :
          ( /\ ar[req].deletionTimestamp
            /\ "kubernetes-fleet.io/metric-collector-report-cleanup"
                 \in ar[req].finalizers
            /\ HasApprovedTrue(ar[req])
            /\ Reconcile(req, NoFault) )
            => /\ req \notin DOMAIN ar'
               /\ last'.verdict = "cleanup"
               /\ last'.result = Idle
               /\ \A c \in Range(StageClusters(ar[req])) :
                    ReportIdentity(ar[req], c) \notin DOMAIN reports'
      ]_vars

\* the cleanup has run over an approved request that is being deleted: it has
\* deleted the reports of the stage, and the update that removes the finalizer
\* failed, so the request is still there and stays queued
C30_Witness ==
    /\ last.op = "approval"
    /\ last.verdict = "cleanup"
    /\ last.req \in DOMAIN ar
    /\ ar[last.req].deletionTimestamp
    /\ HasApprovedTrue(ar[last.req])
    /\ "kubernetes-fleet.io/metric-collector-report-cleanup"
         \in ar[last.req].finalizers
    /\ StageClusters(ar[last.req]) # <<>>
    /\ reports = << >>
    /\ last.req \in queue

\* C31: in a pass over a request that is neither deleted nor approved and has
\* no finalizer, a report is created only when the finalizer is on the request
\* after the pass, and when the update that persists the finalizer fails the
\* pass returns an error and has changed neither the reports nor the request.
C31_FinalizerBeforeReports ==
    [][ \A req \in DOMAIN ar :
          ( /\ ~ar[req].deletionTimestamp
            /\ ~HasApprovedTrue(ar[req])
            /\ "kubernetes-fleet.io/metric-collector-report-cleanup"
                 \notin ar[req].finalizers )
            => /\ (PassOver(req) /\ DOMAIN reports' # DOMAIN reports)
                    => /\ req \in DOMAIN ar'
                       /\ "kubernetes-fleet.io/metric-collector-report-cleanup"
                            \in ar'[req].finalizers
               /\ Reconcile(req, [call |-> "UpdateFinalizer", at |-> 0])
                    => /\ last'.result = Failed
                       /\ reports' = reports
                       /\ ar' = ar
      ]_vars

\* the update that persists the finalizer has failed: the pass returned an
\* error, the request has no finalizer and no report exists
C31_Witness ==
    /\ last.op = "approval"
    /\ last.result = Failed
    /\ last.req \in DOMAIN ar
    /\ ar[last.req].finalizers = {}
    /\ ~ar[last.req].deletionTimestamp
    /\ StageClusters(ar[last.req]) # <<>>
    /\ reports = << >>
    /\ last.req \in queue

\* C32: a pass issues the status write that sets Approved=True only over a
\* request on which the condition is not yet True, and the request is approved
\* after that write; a pass over a request with Approved=True, deleted or
\* not, issues no status write.  With C5 (the condition never leaves True)
\* this gives at most one such write for a request.
C32_ApprovedIsWrittenOnce ==
    \A req \in DOMAIN ar :
      \A fault \in Faults :
        LET p == reconcileApprovalRequestObj(ar[req], fault)
        IN  /\ "UpdateStatus" \in p.writes
                => ~HasApprovedTrue(ar[req]) /\ HasApprovedTrue(p.obj)
            /\ (~HasApprovedTrue(ar[req]) /\ HasApprovedTrue(p.obj))
                => "UpdateStatus" \in p.writes

\* the pass that just ended has set Approved=True on a request that reads
\* healthy reports of both clusters of its stage
C32_Witness ==
    /\ last.op = "approval"
    /\ last.verdict = "healthy"
    /\ last.result = RetryAfter15
    /\ last.req \in DOMAIN ar
    /\ HasApprovedTrue(ar[last.req])
    /\ Len(StageClusters(ar[last.req])) = 2
    /\ \A c \in Range(StageClusters(ar[last.req])) :
         ReportIdentity(ar[last.req], c) \in DOMAIN reports

\* C33: a pass over a request that has Approved=True and is not deleted
\* returns Idle and takes the request out of the queue, and while the request
\* is out of the queue no pass runs for it and only its deletion queues it
\* again: after the approving pass, which re-queues, one more pass runs.
C33_PollingEndsAfterApproval ==
    [][ \A req \in DOMAIN ar :
          (HasApprovedTrue(ar[req]) /\ ~ar[req].deletionTimestamp)
            => /\ PassOver(req) => (last'.result = Idle /\ req \notin queue')
               /\ req \notin queue
                    => /\ ~PassOver(req)
                       /\ req \in queue'
                            => (req \in DOMAIN ar' /\ ar'[req].deletionTimestamp)
      ]_vars

\* the polling of an approved request has ended while the collectors go on:
\* the request is out of the queue and a collector has just run
C33_Witness ==
    /\ last.op = "collector"
    /\ \E req \in DOMAIN ar :
         /\ HasApprovedTrue(ar[req])
         /\ ~ar[req].deletionTimestamp
         /\ req \notin queue
    /\ collectorQueue # {}

\* the reports of obj's stage, resolved in obj's own scope and namespace
OwnReports(obj) == { ReportIdentity(obj, c) : c \in Range(StageClusters(obj)) }

\* C34: a pass over a request that is neither deleted nor approved works with
\* the update run and the tracker of the request's own scope and namespace:
\* it creates reports for the clusters of that run's stage and for no other
\* cluster, and when it approves, every workload of that tracker has a healthy
\* sample in the report of each of those clusters.
C34_ResolvesInOwnScope ==
    [][ \A req \in DOMAIN ar :
          (~ar[req].deletionTimestamp /\ ~HasApprovedTrue(ar[req]) /\ PassOver(req))
            => /\ DOMAIN reports' \ DOMAIN reports \subseteq OwnReports(ar[req])
               /\ last'.result = RetryAfter15
                    => OwnReports(ar[req]) \subseteq DOMAIN reports'
               /\ (req \in DOMAIN ar' /\ HasApprovedTrue(ar'[req]))
                    => /\ TrackedWorkloads(ar[req]) # <<>>
                       /\ \A k \in OwnReports(ar[req]) :
                            \A w \in Range(TrackedWorkloads(ar[req])) :
                              \E i \in 1..Len(SamplesOf(k)) :
                                /\ SameWorkloadName(SamplesOf(k)[i], w)
                                /\ SamplesOf(k)[i].health
      ]_vars

\* the namespaced request b1 of namespace ns1 has been approved on the report
\* of c2, the one cluster of the namespaced run, by a sample of the workload
\* its namespaced tracker names, while the cluster-scoped run of the same name
\* lists c1 as well and no report of c1 exists
C34_Witness ==
    /\ last.op = "approval"
    /\ last.req = <<"ns1", "b1">>
    /\ last.req \in DOMAIN ar
    /\ HasApprovedTrue(ar[last.req])
    /\ DOMAIN reports = {<<"fleet-member-c2", "mc-run-A-s1">>}
    /\ <<"", "run-A">> \in DOMAIN updateRuns
    /\ \E i \in 1..Len(SamplesOf(<<"fleet-member-c2", "mc-run-A-s1">>)) :
         SamplesOf(<<"fleet-member-c2", "mc-run-A-s1">>)[i].workloadName = "web"

\* C35: the cleanup pass over a deleted request leaves in place every report
\* of the stage of another request that has been provisioned, is neither
\* deleted nor approved and targets the same update run and stage.
C35_CleanupSparesSharedReports ==
    [][ \A a \in DOMAIN ar :
          (ar[a].deletionTimestamp /\ PassOver(a))
            => \A b \in DOMAIN ar \ {a} :
                 ( /\ ~ar[b].deletionTimestamp
                   /\ ~HasApprovedTrue(ar[b])
                   /\ "kubernetes-fleet.io/metric-collector-report-cleanup"
                        \in ar[b].finalizers
                   /\ ar[b].namespace = ar[a].namespace
                   /\ ar[b].spec = ar[a].spec )
                   => \A c \in Range(StageClusters(ar[b])) :
                        ReportIdentity(ar[b], c) \in DOMAIN reports
                          => ReportIdentity(ar[b], c) \in DOMAIN reports'
      ]_vars

\* the target of a request: the scope or namespace of its update run, the
\* name of the run and the name of the stage
TargetOf(obj) == <<obj.namespace, obj.spec.targetUpdateRun, obj.spec.targetStage>>

\* the report the reconciler works with for obj's target in cluster c
ResolvedReport(obj, c) ==
    ReportKey(c, ReportName(obj.spec.targetUpdateRun, obj.spec.targetStage))

\* C36: two provisioned requests whose targets differ in the update run's
\* name, in the stage's name or in the run's scope or namespace resolve to
\* different reports in every cluster that both stages hold.
C36_DistinctTargetsDistinctReports ==
    \A a \in DOMAIN ar : \A b \in DOMAIN ar :
      ( /\ TargetOf(ar[a]) # TargetOf(ar[b])
        /\ "kubernetes-fleet.io/metric-collector-report-cleanup" \in ar[a].finalizers
        /\ "kubernetes-fleet.io/metric-collector-report-cleanup" \in ar[b].finalizers )
        => \A c \in Range(StageClusters(ar[a])) \cap Range(StageClusters(ar[b])) :
             ResolvedReport(ar[a], c) \in DOMAIN reports
               => ResolvedReport(ar[a], c) # ResolvedReport(ar[b], c)

\* C37: no pass of the collector changes which reports exist; a pass over a
\* request whose report is absent writes nothing, and it ends Idle with the
\* request taken out of the queue unless a call of the pass failed: the fetch,
\* or the status update of a report that was deleted after the pass read it.
C37_CollectorNeverCreates ==
    [][ last'.op = "collector"
          => /\ DOMAIN reports' = DOMAIN reports
             /\ last'.req \notin DOMAIN reports
                  => /\ reports' = reports
                     /\ last'.result \in {Idle, Failed}
                     /\ last'.result = Idle => last'.req \notin collectorQueue'
                     /\ \A m \in MemberClusters :
                          CollectorReconcile(m, last'.req,
                                             Response("ok", 200, TRUE, "success", <<>>),
                                             "none")
                            => last'.result = Idle
      ]_vars

\* the cleanup of a deleted request has purged the reports, a collector has
\* then found its report absent and ended Idle, and no report exists
C37_Witness ==
    /\ last.op = "collector"
    /\ last.result = Idle
    /\ last.req \notin collectorQueue
    /\ reports = << >>
    /\ ar = << >>
    /\ RunKey \in DOMAIN updateRuns

\* C38: in every state the count of monitored workloads of each report equals
\* the number of samples its status lists, whether the last collection
\* succeeded or failed.
C38_CountMatchesSamples ==
    \A key \in DOMAIN reports :
        reports[key].status.workloadsMonitored
          = Cardinality(DOMAIN reports[key].status.collectedMetrics)

\* a collection has failed over a report that has been provisioned, and the
\* status it persisted lists no sample and counts none
C38_Witness ==
    /\ last.op = "collector"
    /\ last.verdict = "query failed"
    /\ last.req \in DOMAIN reports
    /\ reports[last.req].status.conditions # <<>>
    /\ reports[last.req].status.collectedMetrics = <<>>
    /\ reports[last.req].status.workloadsMonitored = 0

\* the value of the result is missing, is no string, or is a string that
\* does not begin with a number
HasNoReadableValue(res) ==
    \/ Len(res.value) < 2
    \/ res.value[2].type # "string"
    \/ /\ res.value[2].text # <<>>
       /\ res.value[2].text[1] \notin {"0", "1", "2", "3", "4", "5", "6", "7", "8", "9",
                                       "+", "-", "."}

====
